---------------------------- MODULE Spec2Model ----------------------------
(***************************************************************************)
(* A model of the 6502 core of rusty-nes: the decode table                 *)
(* (src/src/instruction.rs), the addressing-mode resolver and the          *)
(* execution engine (src/src/cpu.rs) and the 2KB RAM (src/src/mem.rs).     *)
(*                                                                         *)
(* Registers keep the types of the source: accum, x, y and every operand   *)
(* are i8 (-128..127), sp and the status fields are u8, pc is u16.         *)
(* Arithmetic that can overflow its type is build-dependent in Rust: with  *)
(* overflow checks (the dev profile) it panics, without them (the release  *)
(* profile) it wraps, and a shift by the full width of the type has its    *)
(* amount masked.  overflow_checks chooses the profile.  A panic is        *)
(* recorded in `panicked`; the fields assigned before it keep their        *)
(* values.                                                                 *)
(*                                                                         *)
(* cpu.rs calls self.mem.read / self.mem.write; mem.rs defines the two     *)
(* accessors of Memory as ram_read / ram_write, which is what the calls    *)
(* are modelled by.                                                        *)
(***************************************************************************)
EXTENDS Integers, Sequences, FiniteSets, TLC

VARIABLES pc, sp, accum, x, y, status, mem, cycle,
          panicked,          \* a panic escaped from advance_cpu
          overflow_checks,   \* build profile: TRUE = overflow checks on
          inst,              \* the Instruction decoded by the last advance_cpu
          hist,              \* the CPU states before each call made so far
          fixture,           \* name of the test fixture this run started from
          call               \* the last call made by the embedder

vars == <<pc, sp, accum, x, y, status, mem, cycle, panicked,
          overflow_checks, inst, hist, fixture, call>>

\* Number of advance_cpu calls explored per run.
MaxSteps == 5

\* Number of direct Memory::ram_write calls explored per run.
MaxWrites == 2

---------------------------------------------------------------------------
\* Fixed-width integer helpers.

U8(n) == n % 256

U16(n) == n % 65536

I8(n) == IF n % 256 >= 128 THEN (n % 256) - 256 ELSE n % 256

I16(n) == IF n % 65536 >= 32768 THEN (n % 65536) - 65536 ELSE n % 65536

InI8(n) == n >= -128 /\ n <= 127

InI16(n) == n >= -32768 /\ n <= 32767

RECURSIVE BitAndN(_, _, _)
BitAndN(a, b, n) ==
  IF n = 0 THEN 0
  ELSE (IF a % 2 = 1 /\ b % 2 = 1 THEN 1 ELSE 0) + 2 * BitAndN(a \div 2, b \div 2, n - 1)

RECURSIVE BitOrN(_, _, _)
BitOrN(a, b, n) ==
  IF n = 0 THEN 0
  ELSE (IF a % 2 = 1 \/ b % 2 = 1 THEN 1 ELSE 0) + 2 * BitOrN(a \div 2, b \div 2, n - 1)

RECURSIVE BitXorN(_, _, _)
BitXorN(a, b, n) ==
  IF n = 0 THEN 0
  ELSE (IF a % 2 # b % 2 THEN 1 ELSE 0) + 2 * BitXorN(a \div 2, b \div 2, n - 1)

\* u8 / u16 operators ( & | ) on unsigned values
AndU(a, b) == BitAndN(a, b, 16)

OrU(a, b) == BitOrN(a, b, 16)

\* i8 operators ( & | ^ ! ) on two's-complement values
AndI8(a, b) == I8(BitAndN(U8(a), U8(b), 8))

OrI8(a, b) == I8(BitOrN(U8(a), U8(b), 8))

XorI8(a, b) == I8(BitXorN(U8(a), U8(b), 8))

NotI8(a) == I8(255 - U8(a))

RECURSIVE Pow2(_)
Pow2(k) == IF k = 0 THEN 1 ELSE 2 * Pow2(k - 1)

\* i8 << k for k < 8: bits shifted out are dropped, no overflow check
ShlI8(a, k) == I8(U8(a) * Pow2(k))

\* i8 >> k: arithmetic shift (sign-extending)
ShrI8(a, k) == (a - (a % Pow2(k))) \div Pow2(k)

\* u8 << k for k < 8
ShlU8(a, k) == U8(a * Pow2(k))

\* u8 << 8: the shift amount equals the width of the type.  With overflow
\* checks this panics; without them the amount is masked to 8 & 7 = 0.
ShlU8By8(a) == a

RotlI8(a) == I8(((U8(a) * 2) % 256) + (U8(a) \div 128))

RotrI8(a) == I8((U8(a) \div 2) + (U8(a) % 2) * 128)

---------------------------------------------------------------------------
\* mem.rs

ZERO_PAGE_START == 0

STACK_TOP == 256

RamSize == 2048

\* Memory::new: every cell is 0xFF.  The ram array is kept as the set of
\* cells that were given a value, all others holding 0xFF.
Memory_new == [a \in {} |-> 255]

RamCell(ram, i) == IF i \in DOMAIN ram THEN ram[i] ELSE 255

ram_read(ram, addr) == RamCell(ram, addr % RamSize)

\* index used by ram_write
ram_write_index(addr) == AndU(addr, 2048)

\* ram_write panics (index out of bounds) when the index is not below 2048
ram_write_panics(addr) == ram_write_index(addr) >= RamSize

ram_write(ram, addr, data) ==
  [i \in DOMAIN ram \cup {ram_write_index(addr)} |->
     IF i = ram_write_index(addr) THEN data ELSE ram[i]]

---------------------------------------------------------------------------
\* StatusRegister

StatusRegister_new ==
  [c |-> 0, z |-> 0, i |-> 1, d |-> 0, b |-> 1, bit_5 |-> 1, v |-> 0, n |-> 0]

get_flags(st) ==
  BitOrN(st.c,
  BitOrN(ShlU8(st.z, 1),
  BitOrN(ShlU8(st.i, 2),
  BitOrN(ShlU8(st.d, 3),
  BitOrN(ShlU8(st.b, 4),
  BitOrN(ShlU8(st.bit_5, 5),
  BitOrN(ShlU8(st.v, 6), ShlU8(st.n, 7), 8), 8), 8), 8), 8), 8), 8)

set_flags(flags) ==
  [c     |-> BitAndN(flags, 1, 8),
   z     |-> BitAndN(flags, 2, 8),
   i     |-> BitAndN(flags, 4, 8),
   d     |-> BitAndN(flags, 8, 8),
   b     |-> BitAndN(flags, 16, 8),
   bit_5 |-> BitAndN(flags, 32, 8),
   v     |-> BitAndN(flags, 64, 8),
   n     |-> BitAndN(flags, 128, 8)]

\* Checks if adding these numbers will result in an incorrect sign bit
signed_overflow_add(a, b) ==
  \/ (a > 0 /\ b > 0 /\ I8(a + b) <= 0)
  \/ (a < 0 /\ b < 0 /\ I8(a + b) >= 0)

\* Checks if subtracting these numbers will result in an incorrect sign bit
signed_overflow_sub(a, b) ==
  \/ (a > 0 /\ b > 0 /\ a > b /\ I8(a - b) <= 0)
  \/ (a > 0 /\ b > 0 /\ a < b /\ I8(a - b) >= 0)
  \/ (a > 0 /\ b < 0 /\ I8(a - b) < 0)
  \/ (a < 0 /\ b > 0 /\ I8(a - b) > 0)

\* checks if a page boundary is crossed
page_crossed(old_addr, new_addr) == (old_addr \div 128) = (new_addr \div 128)

---------------------------------------------------------------------------
\* instruction.rs

Instr(o, m, cy, sz) == [op |-> o, addr_mode |-> m, cycles |-> cy, size |-> sz]

Instruction_new(opcode) ==
  CASE opcode =   0 -> Instr("BRK", "Implicit", 7, 1)   \* 0x00
    [] opcode =   1 -> Instr("ORA", "IndexedIndirect", 6, 2)   \* 0x01
    [] opcode =   5 -> Instr("ORA", "ZeroPage", 3, 2)   \* 0x05
    [] opcode =   6 -> Instr("ASL", "ZeroPage", 5, 2)   \* 0x06
    [] opcode =   8 -> Instr("PHP", "Implicit", 3, 1)   \* 0x08
    [] opcode =   9 -> Instr("ORA", "Immediate", 2, 2)   \* 0x09
    [] opcode =  10 -> Instr("ASL", "Accumulator", 2, 1)   \* 0x0a
    [] opcode =  13 -> Instr("ORA", "Absolute", 4, 3)   \* 0x0d
    [] opcode =  14 -> Instr("ASL", "Absolute", 6, 3)   \* 0x0e
    [] opcode =  16 -> Instr("BPL", "Relative", 2, 2)   \* 0x10
    [] opcode =  17 -> Instr("ORA", "IndirectIndexed", 5, 2)   \* 0x11
    [] opcode =  21 -> Instr("ORA", "ZeroPageX", 4, 2)   \* 0x15
    [] opcode =  22 -> Instr("ASL", "ZeroPageX", 6, 2)   \* 0x16
    [] opcode =  24 -> Instr("CLC", "Implicit", 2, 1)   \* 0x18
    [] opcode =  25 -> Instr("ORA", "AbsoluteY", 4, 2)   \* 0x19
    [] opcode =  29 -> Instr("ORA", "AbsoluteX", 4, 3)   \* 0x1d
    [] opcode =  30 -> Instr("ASL", "AbsoluteX", 7, 3)   \* 0x1e
    [] opcode =  32 -> Instr("JSR", "Relative", 6, 3)   \* 0x20
    [] opcode =  33 -> Instr("AND", "IndexedIndirect", 6, 2)   \* 0x21
    [] opcode =  36 -> Instr("BIT", "ZeroPage", 3, 2)   \* 0x24
    [] opcode =  37 -> Instr("AND", "ZeroPage", 3, 2)   \* 0x25
    [] opcode =  38 -> Instr("ROL", "ZeroPage", 5, 2)   \* 0x26
    [] opcode =  40 -> Instr("PLP", "Implicit", 4, 1)   \* 0x28
    [] opcode =  41 -> Instr("AND", "Immediate", 2, 2)   \* 0x29
    [] opcode =  42 -> Instr("ROL", "Accumulator", 2, 1)   \* 0x2a
    [] opcode =  44 -> Instr("BIT", "Absolute", 4, 3)   \* 0x2c
    [] opcode =  45 -> Instr("AND", "Absolute", 4, 3)   \* 0x2d
    [] opcode =  46 -> Instr("ROL", "Absolute", 6, 3)   \* 0x2e
    [] opcode =  48 -> Instr("BMI", "Relative", 2, 2)   \* 0x30
    [] opcode =  49 -> Instr("AND", "IndirectIndexed", 5, 2)   \* 0x31
    [] opcode =  53 -> Instr("AND", "ZeroPageX", 4, 2)   \* 0x35
    [] opcode =  54 -> Instr("ROL", "ZeroPageX", 6, 2)   \* 0x36
    [] opcode =  56 -> Instr("SEC", "Implicit", 2, 1)   \* 0x38
    [] opcode =  57 -> Instr("AND", "AbsoluteY", 4, 3)   \* 0x39
    [] opcode =  61 -> Instr("AND", "AbsoluteX", 4, 3)   \* 0x3d
    [] opcode =  62 -> Instr("ROL", "AbsoluteX", 7, 3)   \* 0x3e
    [] opcode =  64 -> Instr("RTI", "Implicit", 6, 1)   \* 0x40
    [] opcode =  65 -> Instr("EOR", "IndexedIndirect", 6, 2)   \* 0x41
    [] opcode =  69 -> Instr("EOR", "ZeroPage", 3, 2)   \* 0x45
    [] opcode =  70 -> Instr("LSR", "ZeroPage", 5, 2)   \* 0x46
    [] opcode =  72 -> Instr("PHA", "Implicit", 3, 1)   \* 0x48
    [] opcode =  73 -> Instr("EOR", "Immediate", 2, 2)   \* 0x49
    [] opcode =  74 -> Instr("LSR", "Accumulator", 2, 1)   \* 0x4a
    [] opcode =  76 -> Instr("JMP", "Absolute", 3, 3)   \* 0x4c
    [] opcode =  77 -> Instr("EOR", "Absolute", 4, 3)   \* 0x4d
    [] opcode =  78 -> Instr("LSR", "Absolute", 6, 3)   \* 0x4e
    [] opcode =  80 -> Instr("BVC", "Relative", 2, 2)   \* 0x50
    [] opcode =  81 -> Instr("EOR", "IndirectIndexed", 5, 2)   \* 0x51
    [] opcode =  85 -> Instr("EOR", "ZeroPageX", 4, 2)   \* 0x55
    [] opcode =  86 -> Instr("LSR", "ZeroPageX", 6, 2)   \* 0x56
    [] opcode =  88 -> Instr("CLI", "Implicit", 2, 1)   \* 0x58
    [] opcode =  89 -> Instr("EOR", "AbsoluteY", 4, 3)   \* 0x59
    [] opcode =  93 -> Instr("EOR", "AbsoluteX", 4, 3)   \* 0x5d
    [] opcode =  94 -> Instr("LSR", "AbsoluteX", 7, 3)   \* 0x5e
    [] opcode =  96 -> Instr("RTS", "Implicit", 6, 1)   \* 0x60
    [] opcode =  97 -> Instr("ADC", "IndexedIndirect", 6, 2)   \* 0x61
    [] opcode = 101 -> Instr("ADC", "ZeroPage", 3, 2)   \* 0x65
    [] opcode = 102 -> Instr("ROR", "ZeroPage", 5, 2)   \* 0x66
    [] opcode = 104 -> Instr("PLA", "Implicit", 4, 1)   \* 0x68
    [] opcode = 105 -> Instr("ADC", "Immediate", 2, 2)   \* 0x69
    [] opcode = 106 -> Instr("ROR", "Accumulator", 2, 1)   \* 0x6a
    [] opcode = 108 -> Instr("JMP", "Indirect", 5, 3)   \* 0x6c
    [] opcode = 109 -> Instr("ADC", "Absolute", 4, 3)   \* 0x6d
    [] opcode = 110 -> Instr("ROR", "Absolute", 6, 3)   \* 0x6e
    [] opcode = 112 -> Instr("BVS", "Relative", 2, 2)   \* 0x70
    [] opcode = 113 -> Instr("ADC", "IndirectIndexed", 5, 2)   \* 0x71
    [] opcode = 117 -> Instr("ADC", "ZeroPageX", 4, 2)   \* 0x75
    [] opcode = 118 -> Instr("ROR", "ZeroPageX", 6, 2)   \* 0x76
    [] opcode = 120 -> Instr("SEI", "Implicit", 2, 1)   \* 0x78
    [] opcode = 121 -> Instr("ADC", "AbsoluteY", 4, 3)   \* 0x79
    [] opcode = 125 -> Instr("ADC", "AbsoluteX", 4, 3)   \* 0x7d
    [] opcode = 126 -> Instr("ROR", "AbsoluteX", 7, 3)   \* 0x7e
    [] opcode = 129 -> Instr("STA", "IndexedIndirect", 6, 2)   \* 0x81
    [] opcode = 132 -> Instr("STY", "ZeroPage", 3, 2)   \* 0x84
    [] opcode = 133 -> Instr("STA", "ZeroPage", 3, 2)   \* 0x85
    [] opcode = 134 -> Instr("STX", "ZeroPage", 3, 2)   \* 0x86
    [] opcode = 136 -> Instr("DEY", "Implicit", 2, 1)   \* 0x88
    [] opcode = 138 -> Instr("TXA", "Implicit", 2, 1)   \* 0x8a
    [] opcode = 140 -> Instr("STY", "Absolute", 4, 3)   \* 0x8c
    [] opcode = 141 -> Instr("STA", "Absolute", 4, 3)   \* 0x8d
    [] opcode = 142 -> Instr("STX", "Absolute", 4, 3)   \* 0x8e
    [] opcode = 144 -> Instr("BCC", "Relative", 2, 2)   \* 0x90
    [] opcode = 145 -> Instr("STA", "IndirectIndexed", 6, 2)   \* 0x91
    [] opcode = 148 -> Instr("STY", "ZeroPageX", 4, 2)   \* 0x94
    [] opcode = 149 -> Instr("STA", "ZeroPageX", 4, 2)   \* 0x95
    [] opcode = 150 -> Instr("STX", "ZeroPageY", 4, 2)   \* 0x96
    [] opcode = 152 -> Instr("TYA", "Implicit", 2, 1)   \* 0x98
    [] opcode = 153 -> Instr("STA", "AbsoluteY", 5, 3)   \* 0x99
    [] opcode = 154 -> Instr("TXS", "Implicit", 2, 1)   \* 0x9a
    [] opcode = 157 -> Instr("STA", "AbsoluteX", 5, 3)   \* 0x9d
    [] opcode = 160 -> Instr("LDY", "Immediate", 2, 2)   \* 0xa0
    [] opcode = 161 -> Instr("LDA", "IndexedIndirect", 6, 2)   \* 0xa1
    [] opcode = 162 -> Instr("LDX", "Immediate", 2, 2)   \* 0xa2
    [] opcode = 164 -> Instr("LDY", "ZeroPage", 3, 2)   \* 0xa4
    [] opcode = 165 -> Instr("LDA", "ZeroPage", 3, 2)   \* 0xa5
    [] opcode = 166 -> Instr("LDA", "ZeroPage", 3, 2)   \* 0xa6
    [] opcode = 168 -> Instr("TAY", "Implicit", 2, 1)   \* 0xa8
    [] opcode = 169 -> Instr("LDA", "Immediate", 2, 2)   \* 0xa9
    [] opcode = 170 -> Instr("TAX", "Implicit", 2, 1)   \* 0xaa
    [] opcode = 172 -> Instr("LDY", "Absolute", 4, 3)   \* 0xac
    [] opcode = 173 -> Instr("LDA", "Absolute", 4, 3)   \* 0xad
    [] opcode = 174 -> Instr("LDX", "Absolute", 4, 3)   \* 0xae
    [] opcode = 176 -> Instr("BCS", "Relative", 2, 2)   \* 0xb0
    [] opcode = 177 -> Instr("LDA", "IndirectIndexed", 5, 2)   \* 0xb1
    [] opcode = 180 -> Instr("LDY", "ZeroPageX", 4, 2)   \* 0xb4
    [] opcode = 181 -> Instr("LDA", "ZeroPageX", 4, 2)   \* 0xb5
    [] opcode = 182 -> Instr("LDX", "ZeroPageY", 4, 2)   \* 0xb6
    [] opcode = 184 -> Instr("CLV", "Implicit", 2, 1)   \* 0xb8
    [] opcode = 185 -> Instr("LDA", "AbsoluteY", 4, 3)   \* 0xb9
    [] opcode = 186 -> Instr("TSX", "Implicit", 2, 1)   \* 0xba
    [] opcode = 188 -> Instr("LDY", "AbsoluteX", 4, 3)   \* 0xbc
    [] opcode = 189 -> Instr("LDA", "AbsoluteX", 4, 3)   \* 0xbd
    [] opcode = 190 -> Instr("LDX", "AbsoluteY", 4, 3)   \* 0xbe
    [] opcode = 192 -> Instr("CPY", "Immediate", 2, 2)   \* 0xc0
    [] opcode = 193 -> Instr("CMP", "IndexedIndirect", 6, 2)   \* 0xc1
    [] opcode = 196 -> Instr("CPY", "ZeroPage", 3, 2)   \* 0xc4
    [] opcode = 197 -> Instr("CMP", "ZeroPage", 3, 2)   \* 0xc5
    [] opcode = 198 -> Instr("DEC", "ZeroPage", 5, 2)   \* 0xc6
    [] opcode = 200 -> Instr("INY", "Implicit", 2, 1)   \* 0xc8
    [] opcode = 201 -> Instr("CMP", "Immediate", 2, 2)   \* 0xc9
    [] opcode = 202 -> Instr("DEX", "Implicit", 2, 1)   \* 0xca
    [] opcode = 204 -> Instr("CPY", "Absolute", 4, 3)   \* 0xcc
    [] opcode = 205 -> Instr("CMP", "Absolute", 4, 3)   \* 0xcd
    [] opcode = 206 -> Instr("DEC", "Absolute", 6, 3)   \* 0xce
    [] opcode = 208 -> Instr("BNE", "Relative", 2, 2)   \* 0xd0
    [] opcode = 209 -> Instr("CMP", "IndirectIndexed", 5, 2)   \* 0xd1
    [] opcode = 213 -> Instr("CMP", "ZeroPageX", 4, 2)   \* 0xd5
    [] opcode = 214 -> Instr("DEC", "ZeroPageX", 6, 2)   \* 0xd6
    [] opcode = 216 -> Instr("CLD", "Implicit", 2, 1)   \* 0xd8
    [] opcode = 217 -> Instr("CMP", "AbsoluteY", 4, 3)   \* 0xd9
    [] opcode = 221 -> Instr("CMP", "AbsoluteX", 4, 3)   \* 0xdd
    [] opcode = 222 -> Instr("DEC", "AbsoluteX", 7, 3)   \* 0xde
    [] opcode = 224 -> Instr("CPX", "Immediate", 2, 2)   \* 0xe0
    [] opcode = 225 -> Instr("SBC", "IndexedIndirect", 6, 2)   \* 0xe1
    [] opcode = 228 -> Instr("CPX", "ZeroPage", 3, 2)   \* 0xe4
    [] opcode = 229 -> Instr("SBC", "ZeroPage", 3, 2)   \* 0xe5
    [] opcode = 230 -> Instr("INC", "ZeroPage", 5, 2)   \* 0xe6
    [] opcode = 232 -> Instr("INX", "Implicit", 2, 1)   \* 0xe8
    [] opcode = 233 -> Instr("SBC", "Immediate", 2, 2)   \* 0xe9
    [] opcode = 234 -> Instr("NOP", "Implicit", 2, 1)   \* 0xea
    [] opcode = 236 -> Instr("CPX", "Absolute", 4, 3)   \* 0xec
    [] opcode = 237 -> Instr("SBC", "Absolute", 4, 3)   \* 0xed
    [] opcode = 238 -> Instr("INC", "Absolute", 6, 3)   \* 0xee
    [] opcode = 240 -> Instr("BEQ", "Relative", 2, 2)   \* 0xf0
    [] opcode = 241 -> Instr("SBC", "IndirectIndexed", 5, 2)   \* 0xf1
    [] opcode = 245 -> Instr("SBC", "ZeroPageX", 4, 2)   \* 0xf5
    [] opcode = 246 -> Instr("INC", "ZeroPageX", 6, 2)   \* 0xf6
    [] opcode = 248 -> Instr("SED", "Implicit", 2, 1)   \* 0xf8
    [] opcode = 249 -> Instr("SBC", "AbsoluteY", 4, 3)   \* 0xf9
    [] opcode = 253 -> Instr("SBC", "AbsoluteX", 4, 3)   \* 0xfd
    [] opcode = 254 -> Instr("INC", "AbsoluteX", 7, 3)   \* 0xfe
    [] OTHER -> Instr("NOP", "Implicit", 2, 1)   \* _ (default arm)

---------------------------------------------------------------------------
\* cpu.rs: the CPU state threaded through a step is the record
\* [pc, sp, accum, x, y, status, mem, cycle, panicked].

Panic(s) == [s EXCEPT !.panicked = TRUE]

\* run F on s unless a panic already unwound the step
Then(s, F(_)) == IF s.panicked THEN s ELSE F(s)

\* Option<u16>::None
NoAddr == -1

tick_clock(s) == [s EXCEPT !.cycle = @ + 1]

RECURSIVE tick_cycles(_, _)
tick_cycles(s, k) == IF k = 0 THEN s ELSE tick_cycles(tick_clock(s), k - 1)

mem_read(s, addr) == ram_read(s.mem, addr)

mem_write(s, addr, data) ==
  IF ram_write_panics(addr) THEN Panic(s)
  ELSE [s EXCEPT !.mem = ram_write(@, addr, data)]

\* self.pc += 1 after reading the opcode
fetch_instruction(s) ==
  IF overflow_checks /\ s.pc + 1 > 65535 THEN Panic(s)
  ELSE [s EXCEPT !.pc = U16(@ + 1)]

fetched_opcode(s) == mem_read(s, s.pc)

push_byte(s, data) ==
  Then(mem_write(s, STACK_TOP + s.sp, data),
       LAMBDA t : IF overflow_checks /\ t.sp - 1 < 0 THEN Panic(t)
                  ELSE [t EXCEPT !.sp = U8(@ - 1)])

\* pop_byte: the state after self.sp += 1, and the byte it returns
pop_byte(s) ==
  IF overflow_checks /\ s.sp + 1 > 255 THEN Panic(s)
  ELSE [s EXCEPT !.sp = U8(@ + 1)]

popped_byte(t) == mem_read(t, STACK_TOP + t.sp)

\* read(lo_addr) as u16 | (read(hi_addr) << 8) as u16, the shift done in u8
word_at(s, lo_addr, hi_addr) ==
  OrU(mem_read(s, lo_addr), ShlU8By8(mem_read(s, hi_addr)))

Operand(o, a, p) == [operand |-> o, addr |-> a, panic |-> p]

\* Returns (operand, operand_addr); panic: an overflow check failed on the way.
\* Every mode that builds a 16-bit word shifts a u8 left by 8, which fails the
\* check whenever it is reached (as do self.pc + 1 at 0xFFFF and a sum with an
\* index that passes 0xFFFF before it), so with overflow checks these modes
\* always panic; without them the sums wrap modulo 65536.
get_operand(s, addr_mode) ==
  CASE addr_mode = "Absolute" ->
         LET addr == word_at(s, s.pc, U16(s.pc + 1))
         IN Operand(I8(mem_read(s, addr)), addr, overflow_checks)
    [] addr_mode = "AbsoluteX" ->
         LET base == word_at(s, s.pc, U16(s.pc + 1))
             addr == U16(base + U16(s.x))
         IN Operand(I8(mem_read(s, addr)), addr, overflow_checks)
    [] addr_mode = "AbsoluteY" ->
         LET base == word_at(s, s.pc, U16(s.pc + 1))
             addr == U16(base + U16(s.y))
         IN Operand(I8(mem_read(s, addr)), addr, overflow_checks)
    [] addr_mode = "Immediate" ->
         Operand(I8(mem_read(s, s.pc)), NoAddr, FALSE)
    [] addr_mode = "ZeroPage" ->
         LET addr == ZERO_PAGE_START + mem_read(s, s.pc)
         IN Operand(I8(mem_read(s, addr)), addr, FALSE)
    [] addr_mode = "ZeroPageX" ->
         LET sum  == mem_read(s, s.pc) + U8(s.x)
             addr == ZERO_PAGE_START + (U8(sum) % 255)
         IN Operand(I8(mem_read(s, addr)), addr, overflow_checks /\ sum > 255)
    [] addr_mode = "ZeroPageY" ->
         LET sum  == mem_read(s, s.pc) + U8(s.y)
             addr == ZERO_PAGE_START + (U8(sum) % 256)
         IN Operand(I8(mem_read(s, addr)), addr, overflow_checks /\ sum > 255)
    [] addr_mode = "Relative" ->
         Operand(I8(mem_read(s, s.pc)), NoAddr, FALSE)
    [] addr_mode = "Indirect" ->
         LET in_addr == word_at(s, s.pc, U16(s.pc + 1))
             addr == IF (in_addr + 1) % 256 = 0
                     THEN word_at(s, in_addr, U16(in_addr + 1))
                     ELSE word_at(s, in_addr, AndU(in_addr, 65280))
         IN Operand(I8(mem_read(s, addr)), addr, overflow_checks)
    [] addr_mode = "IndexedIndirect" ->
         LET sum     == mem_read(s, s.pc) + U8(s.x)
             in_addr == ZERO_PAGE_START + (U8(sum) % 256)
             addr    == word_at(s, in_addr, in_addr + 1)
         IN Operand(I8(mem_read(s, addr)), addr, overflow_checks)
    [] addr_mode = "IndirectIndexed" ->
         LET in_addr == ZERO_PAGE_START + mem_read(s, s.pc)
             addr    == word_at(s, in_addr, in_addr + 1)
             eff     == U16(addr + U16(s.y))
         IN Operand(I8(mem_read(s, eff)), eff, overflow_checks)
    [] addr_mode = "Accumulator" -> Operand(s.accum, NoAddr, FALSE)
    [] addr_mode = "Implicit" -> Operand(0, NoAddr, FALSE)

Bit(cond) == IF cond THEN 1 ELSE 0

\* the if/else pairs "== 0 -> set_z / clear_z" and "< 0 -> set_n / clear_n"
set_zn(s, val) == [s EXCEPT !.status.z = Bit(val = 0), !.status.n = Bit(val < 0)]

\* write the result to memory if the mode produced an address, else to accum
write_back(s, addr, result) ==
  IF addr # NoAddr THEN mem_write(s, addr, U8(result))
  ELSE [s EXCEPT !.accum = result]

\* self.mem.write(addr.unwrap(), data)
write_unwrap(s, addr, data) ==
  IF addr = NoAddr THEN Panic(s) ELSE mem_write(s, addr, data)

---------------------------------------------------------------------------
\* execute_instruction, one operator per match arm.  Every arm that takes an
\* operand starts with self.get_operand(inst.addr_mode); o is its result.

exec_ADC(s, o) ==
  LET y1 == o.operand + I8(s.status.c)
  IN IF o.panic \/ (overflow_checks /\ ~InI8(y1)) THEN Panic(s)
     ELSE LET s1 == [s EXCEPT !.status.v = Bit(signed_overflow_add(s.accum, I8(y1)))]
              s2 == [s1 EXCEPT !.status.c = Bit(~InI8(s.accum + I8(y1)))]
              y2 == o.operand + I8(s2.status.c)
          IN IF overflow_checks /\ ~InI8(y2) THEN Panic(s2)
             ELSE [s2 EXCEPT !.accum = I8(s.accum + I8(y2))]

\* an AND arm without the Z/N update
exec_AND_NoFlags(s, o) ==
  IF o.panic THEN Panic(s)
  ELSE [s EXCEPT !.accum = AndI8(@, o.operand)]

exec_AND(s, o) ==
  IF o.panic THEN Panic(s)
  ELSE set_zn([s EXCEPT !.accum = AndI8(@, o.operand)], AndI8(s.accum, o.operand))

exec_ASL(s, o) ==
  LET result == ShlI8(o.operand, 1)
  IN IF o.panic THEN Panic(s)
     ELSE LET s1 == [s EXCEPT !.status.c = Bit(ShrI8(AndI8(o.operand, ShlI8(1, 7)), 7) = 1)]
              s2 == [s1 EXCEPT !.status.n = Bit(ShrI8(AndI8(result, ShlI8(1, 7)), 7) = 1)]
          IN write_back(s2, o.addr, result)

\* the body shared by the eight branch arms; cond is the flag test
exec_branch(s, o, cond) ==
  LET sum    == I16(s.pc) + o.operand
      new_pc == U16(sum)
  IN IF o.panic THEN Panic(s)
     ELSE IF ~cond THEN s
     ELSE IF overflow_checks /\ ~InI16(sum) THEN Panic(s)
     ELSE LET s1 == IF page_crossed(s.pc, new_pc) THEN tick_clock(s) ELSE s
          IN tick_clock([s1 EXCEPT !.pc = new_pc])

exec_BCC(s, o) == exec_branch(s, o, s.status.c = 0)

exec_BCS(s, o) == exec_branch(s, o, s.status.c = 1)

exec_BEQ(s, o) == exec_branch(s, o, s.status.z = 1)

exec_BMI(s, o) == exec_branch(s, o, s.status.n = 1)

exec_BNE(s, o) == exec_branch(s, o, s.status.z = 0)

exec_BPL(s, o) == exec_branch(s, o, s.status.n = 0)

exec_BVC(s, o) == exec_branch(s, o, s.status.v = 0)

exec_BVS(s, o) == exec_branch(s, o, s.status.v = 1)

exec_BIT(s, o) ==
  LET result == AndI8(s.accum, o.operand)
  IN IF o.panic THEN Panic(s)
     ELSE [s EXCEPT !.status.z = Bit(result = 0),
                    !.status.v = Bit(ShrI8(AndI8(result, ShlI8(1, 6)), 6) = 1),
                    !.status.n = Bit(ShrI8(AndI8(result, ShlI8(1, 7)), 7) = 1)]

exec_BRK(s) ==
  LET pc_lsb == AndU(s.pc, 255)
      pc_msb == AndU(s.pc, 65280) \div 256
  IN Then(push_byte(s, pc_lsb), LAMBDA s1 :
     Then(push_byte(s1, pc_msb), LAMBDA s2 :
     Then(push_byte(s2, get_flags(s2.status)), LAMBDA s3 :
       [s3 EXCEPT !.pc = OrU(mem_read(s3, 65534), mem_read(s3, 65535) * 256),
                  !.status.b = 1])))

\* the body shared by CMP, CPX and CPY; reg is the compared register
exec_compare(s, o, reg) ==
  IF o.panic THEN Panic(s)
  ELSE LET s1 == [s EXCEPT !.status.c = Bit(reg >= o.operand),
                           !.status.z = Bit(reg = o.operand)]
       IN IF overflow_checks /\ ~InI8(reg - o.operand) THEN Panic(s1)
          ELSE [s1 EXCEPT !.status.n = Bit(I8(reg - o.operand) < 0)]

exec_CMP(s, o) == exec_compare(s, o, s.accum)

exec_CPX(s, o) == exec_compare(s, o, s.x)

exec_CPY(s, o) == exec_compare(s, o, s.y)

\* DEC (delta = -1) and INC (delta = 1)
exec_incdec_mem(s, o, delta) ==
  LET res == o.operand + delta
  IN IF o.panic \/ (overflow_checks /\ ~InI8(res)) THEN Panic(s)
     ELSE write_unwrap(set_zn(s, I8(res)), o.addr, U8(res))

exec_DEC(s, o) == exec_incdec_mem(s, o, -1)

exec_INC(s, o) == exec_incdec_mem(s, o, 1)

\* DEX, DEY, INX, INY: reg is "x" or "y"
exec_incdec_reg(s, reg, delta) ==
  IF overflow_checks /\ ~InI8(s[reg] + delta) THEN Panic(s)
  ELSE set_zn([s EXCEPT ![reg] = I8(@ + delta)], I8(s[reg] + delta))

exec_DEX(s) == exec_incdec_reg(s, "x", -1)

exec_DEY(s) == exec_incdec_reg(s, "y", -1)

exec_INX(s) == exec_incdec_reg(s, "x", 1)

exec_INY(s) == exec_incdec_reg(s, "y", 1)

exec_EOR(s, o) ==
  IF o.panic THEN Panic(s)
  ELSE set_zn([s EXCEPT !.accum = XorI8(@, o.operand)], XorI8(s.accum, o.operand))

exec_JMP(s, o) ==
  IF o.panic \/ o.addr = NoAddr THEN Panic(s)
  ELSE [s EXCEPT !.pc = o.addr]

exec_JSR(s, o) ==
  LET pc_lsb == AndU(s.pc, 255)
      pc_msb == AndU(s.pc, 65280) \div 256
  IN IF o.panic THEN Panic(s)
     ELSE Then(push_byte(s, pc_lsb), LAMBDA s1 :
          Then(push_byte(s1, pc_msb), LAMBDA s2 :
            IF o.addr = NoAddr THEN Panic(s2) ELSE [s2 EXCEPT !.pc = o.addr]))

\* a load that stores the operand and forgets the Z/N update
exec_load_NoFlags(s, o, reg) ==
  IF o.panic THEN Panic(s)
  ELSE [s EXCEPT ![reg] = o.operand]

\* LDA, LDX, LDY: reg is "accum", "x" or "y"
exec_load(s, o, reg) ==
  IF o.panic THEN Panic(s)
  ELSE set_zn([s EXCEPT ![reg] = o.operand], o.operand)

exec_LDA(s, o) == exec_load(s, o, "accum")

exec_LDX(s, o) == exec_load(s, o, "x")

exec_LDY(s, o) == exec_load(s, o, "y")

exec_LSR(s, o) ==
  LET sign_bit == AndI8(o.operand, ShlI8(1, 7))
      result   == U8(o.operand) \div 2
  IN IF o.panic THEN Panic(s)
     ELSE LET s1 == [s EXCEPT !.status.c = Bit(sign_bit = 1), !.status.n = 0]
          IN IF o.addr # NoAddr THEN mem_write(s1, o.addr, result)
             ELSE [s1 EXCEPT !.accum = I8(result)]

\* a NOP arm that is not empty: it clears the carry flag
exec_NOP_ClearsCarry(s) == [s EXCEPT !.status.c = 0]

exec_NOP(s) == s

exec_ORA(s, o) ==
  IF o.panic THEN Panic(s)
  ELSE set_zn([s EXCEPT !.accum = OrI8(@, o.operand)], OrI8(s.accum, o.operand))

exec_PHA(s) == push_byte(s, U8(s.accum))

exec_PHP(s) == push_byte(s, get_flags(s.status))

exec_PLA(s) ==
  Then(pop_byte(s), LAMBDA t :
    set_zn([t EXCEPT !.accum = I8(popped_byte(t))], I8(popped_byte(t))))

exec_PLP(s) ==
  Then(pop_byte(s), LAMBDA t : [t EXCEPT !.status = set_flags(popped_byte(t))])

\* a ROL arm that fills bit 0 with the carry it has just set
exec_ROL_NewCarry(s, o) ==
  LET old_sign_bit == AndI8(o.operand, ShlI8(1, 7))
      result       == OrI8(AndI8(RotlI8(o.operand), NotI8(1)), Bit(old_sign_bit # 0))
  IN IF o.panic THEN Panic(s)
     ELSE write_back([s EXCEPT !.status.c = Bit(old_sign_bit # 0)], o.addr, result)

exec_ROL(s, o) ==
  LET old_sign_bit    == AndI8(o.operand, ShlI8(1, 7))
      curr_carry_flag == s.status.c
      result          == OrI8(AndI8(RotlI8(o.operand), NotI8(1)), I8(curr_carry_flag))
  IN IF o.panic THEN Panic(s)
     ELSE write_back([s EXCEPT !.status.c = Bit(old_sign_bit # 0)], o.addr, result)

exec_ROR(s, o) ==
  LET old_bit_zero    == AndI8(o.operand, 1)
      curr_carry_flag == s.status.c
      result          == OrI8(AndI8(RotrI8(o.operand), NotI8(ShlI8(1, 7))),
                              I8(ShlU8(curr_carry_flag, 7)))
  IN IF o.panic THEN Panic(s)
     ELSE write_back([s EXCEPT !.status.c = Bit(old_bit_zero # 0)], o.addr, result)

exec_RTI(s) ==
  Then(pop_byte(s), LAMBDA t0 :
  LET t1 == [t0 EXCEPT !.status = set_flags(popped_byte(t0))]
  IN Then(pop_byte(t1), LAMBDA t2 :
     Then(pop_byte(t2), LAMBDA t3 :
       [t3 EXCEPT !.pc = OrU(popped_byte(t3), popped_byte(t2) * 256)])))

exec_RTS(s) ==
  Then(pop_byte(s), LAMBDA t1 :
  Then(pop_byte(t1), LAMBDA t2 :
    [t2 EXCEPT !.pc = OrU(popped_byte(t2), popped_byte(t1) * 256)]))

exec_SBC(s, o) ==
  LET y1 == o.operand - I8(1 - s.status.c)
  IN IF o.panic \/ (overflow_checks /\ (1 - s.status.c < 0 \/ ~InI8(y1))) THEN Panic(s)
     ELSE LET s1 == [s EXCEPT !.status.v = Bit(signed_overflow_sub(s.accum, I8(y1)))]
              s2 == [s1 EXCEPT !.status.c = Bit(~InI8(s.accum + I8(y1)))]
              y2 == o.operand + I8(s2.status.c)
          IN IF overflow_checks /\ ~InI8(y2) THEN Panic(s2)
             ELSE [s2 EXCEPT !.accum = I8(s.accum - I8(y2))]

\* CLC, CLD, CLI, CLV, SEC, SED, SEI: one clear_f / set_f call
exec_flag_ClearsZero(s, f, val) == [s EXCEPT !.status[f] = val, !.status.z = 0]

exec_flag(s, f, val) == [s EXCEPT !.status[f] = val]

\* STA, STX, STY: val is the stored register
exec_store(s, o, val) ==
  IF o.panic THEN Panic(s)
  ELSE write_unwrap(s, o.addr, U8(val))

exec_STA(s, o) == exec_store(s, o, s.accum)

exec_STX(s, o) == exec_store(s, o, s.x)

exec_STY(s, o) == exec_store(s, o, s.y)

exec_TAX(s) == [s EXCEPT !.x = s.accum]

exec_TAY(s) == [s EXCEPT !.y = s.accum]

exec_TSX(s) == [s EXCEPT !.x = I8(s.sp)]

exec_TXA(s) == [s EXCEPT !.accum = s.x]

exec_TXS(s) == [s EXCEPT !.sp = U8(s.x)]

exec_TYA(s) == [s EXCEPT !.accum = s.y]

execute_match(s, i, o) ==
  CASE i.op = "ADC" -> exec_ADC(s, o)
    [] i.op = "AND" -> exec_AND(s, o)
    [] i.op = "ASL" -> exec_ASL(s, o)
    [] i.op = "BCC" -> exec_BCC(s, o)
    [] i.op = "BCS" -> exec_BCS(s, o)
    [] i.op = "BEQ" -> exec_BEQ(s, o)
    [] i.op = "BIT" -> exec_BIT(s, o)
    [] i.op = "BMI" -> exec_BMI(s, o)
    [] i.op = "BNE" -> exec_BNE(s, o)
    [] i.op = "BPL" -> exec_BPL(s, o)
    [] i.op = "BRK" -> exec_BRK(s)
    [] i.op = "BVC" -> exec_BVC(s, o)
    [] i.op = "BVS" -> exec_BVS(s, o)
    [] i.op = "CLC" -> exec_flag(s, "c", 0)
    [] i.op = "CLD" -> exec_flag(s, "d", 0)
    [] i.op = "CLI" -> exec_flag(s, "i", 0)
    [] i.op = "CLV" -> exec_flag(s, "v", 0)
    [] i.op = "CMP" -> exec_CMP(s, o)
    [] i.op = "CPX" -> exec_CPX(s, o)
    [] i.op = "CPY" -> exec_CPY(s, o)
    [] i.op = "DEC" -> exec_DEC(s, o)
    [] i.op = "DEX" -> exec_DEX(s)
    [] i.op = "DEY" -> exec_DEY(s)
    [] i.op = "EOR" -> exec_EOR(s, o)
    [] i.op = "INC" -> exec_INC(s, o)
    [] i.op = "INX" -> exec_INX(s)
    [] i.op = "INY" -> exec_INY(s)
    [] i.op = "JMP" -> exec_JMP(s, o)
    [] i.op = "JSR" -> exec_JSR(s, o)
    [] i.op = "LDA" -> exec_LDA(s, o)
    [] i.op = "LDX" -> exec_LDX(s, o)
    [] i.op = "LDY" -> exec_LDY(s, o)
    [] i.op = "LSR" -> exec_LSR(s, o)
    [] i.op = "NOP" -> exec_NOP(s)
    [] i.op = "ORA" -> exec_ORA(s, o)
    [] i.op = "PHA" -> exec_PHA(s)
    [] i.op = "PHP" -> exec_PHP(s)
    [] i.op = "PLA" -> exec_PLA(s)
    [] i.op = "PLP" -> exec_PLP(s)
    [] i.op = "ROL" -> exec_ROL(s, o)
    [] i.op = "ROR" -> exec_ROR(s, o)
    [] i.op = "RTI" -> exec_RTI(s)
    [] i.op = "RTS" -> exec_RTS(s)
    [] i.op = "SBC" -> exec_SBC(s, o)
    [] i.op = "SEC" -> exec_flag(s, "c", 1)
    [] i.op = "SED" -> exec_flag(s, "d", 1)
    [] i.op = "SEI" -> exec_flag(s, "i", 1)
    [] i.op = "STA" -> exec_STA(s, o)
    [] i.op = "STX" -> exec_STX(s, o)
    [] i.op = "STY" -> exec_STY(s, o)
    [] i.op = "TAX" -> exec_TAX(s)
    [] i.op = "TAY" -> exec_TAY(s)
    [] i.op = "TSX" -> exec_TSX(s)
    [] i.op = "TXA" -> exec_TXA(s)
    [] i.op = "TXS" -> exec_TXS(s)
    [] i.op = "TYA" -> exec_TYA(s)

\* the match, then one tick_clock per table cycle
execute_instruction(s, i) ==
  Then(execute_match(s, i, get_operand(s, i.addr_mode)),
       LAMBDA t : tick_cycles(t, i.cycles))

\* advance_cpu once the fetched opcode is decoded to i: fetch_instruction's
\* self.pc += 1, execute, then self.pc += (inst.size - 1) as u16
advance_decoded(s, i) ==
  Then(fetch_instruction(s), LAMBDA s1 :
  Then(execute_instruction(s1, i), LAMBDA s2 :
    IF overflow_checks /\ s2.pc + (i.size - 1) > 65535 THEN Panic(s2)
    ELSE [s2 EXCEPT !.pc = U16(@ + (i.size - 1))]))

advance_cpu(s) == advance_decoded(s, Instruction_new(fetched_opcode(s)))

---------------------------------------------------------------------------
\* The state machine.

\* CPU::new
CPU_new ==
  [pc |-> 0, sp |-> 253, accum |-> 0, x |-> 0, y |-> 0,
   status |-> StatusRegister_new, mem |-> Memory_new, cycle |-> 0,
   panicked |-> FALSE]

\* the value of `inst` before the first fetch
NoInstr == Instr("none", "none", 0, 0)

CpuState ==
  [pc |-> pc, sp |-> sp, accum |-> accum, x |-> x, y |-> y, status |-> status,
   mem |-> mem, cycle |-> cycle, panicked |-> panicked]

Call(op, addr, data) == [op |-> op, addr |-> addr, data |-> data]

\* the value of `call` before the first call
NoCall == Call("none", 0, 0)

\* A memory image: the ram cells named by a set of <<address, byte>> pairs.
MemOf(pairs) ==
  [i \in {p[1] % RamSize : p \in pairs} |->
     (CHOOSE p \in pairs : p[1] % RamSize = i)[2]]

\* the bytes of a program laid out from address org
Prog(org, bytes) == {<<org + k - 1, bytes[k]>> : k \in 1..Len(bytes)}

Lo(w) == w % 256

Hi(w) == w \div 256

Fix(name, n, org, s) == [fix |-> [name |-> name, n |-> n, org |-> org], cpu |-> s]

\* Operand and register values tried by the fixtures.
ByteSamples == {0, 1, 5, 64, 127, 128, 129, 255}

\* CPU::new() as is: memory is all 0xFF, an opcode with no assignment.
FixNew == {Fix("new", 8, 0, CPU_new)}

\* LDA #5; STA $10; BRK, with the IRQ vector set
FixProgram ==
  {Fix("program", 3, org,
       [CPU_new EXCEPT !.pc = org,
          !.mem = MemOf(Prog(org, <<169, 5, 133, 16, 0>>)
                        \cup Prog(65534, <<Lo(vec), Hi(vec)>>))]) :
     org \in {512, 1536}, vec \in {1664, 4660}}

\* JSR T at A, RTS at T
FixJsrRts ==
  {Fix("jsr_rts", 2, A,
       [CPU_new EXCEPT !.pc = A, !.sp = p,
          !.mem = MemOf(Prog(A, <<32, Lo(T), Hi(T)>>) \cup Prog(T, <<96>>))]) :
     A \in {1536, 768}, T \in {4660, 64, 1025}, p \in {253, 1, 0}}

\* PHA; PLA and PHA; LDA #w; PLA
FixPhaPla ==
  {Fix("pha_pla", 2, 1536,
       [CPU_new EXCEPT !.pc = 1536, !.accum = I8(v), !.sp = p,
          !.mem = MemOf(Prog(1536, <<72, 104>>))]) :
     v \in ByteSamples, p \in {0, 1, 253, 255}}
  \cup
  {Fix("pha_lda_pla", 3, 1536,
       [CPU_new EXCEPT !.pc = 1536, !.accum = I8(v), !.sp = p,
          !.mem = MemOf(Prog(1536, <<72, 169, w, 104>>))]) :
     v \in ByteSamples, w \in {0, 66}, p \in {0, 253}}

BranchOpcodes == {16, 48, 80, 112, 144, 176, 208, 240}

\* one conditional branch at A with displacement byte d, every flag setting
FixBranch ==
  {Fix("branch", 1, A,
       [CPU_new EXCEPT !.pc = A,
          !.status = [StatusRegister_new EXCEPT !.c = fl[1], !.z = fl[2],
                                                !.v = fl[3], !.n = fl[4]],
          !.mem = MemOf(Prog(A, <<o, d>>))]) :
     o \in BranchOpcodes, A \in {1536, 1648, 1776},
     d \in {4, 32, 127, 128, 252},
     fl \in {0, 1} \X {0, 1} \X {0, 1} \X {0, 1}}

\* ADC, SBC, AND, ORA, EOR, CMP, CPX, CPY, LDX, LDY with an immediate operand
ImmediateOpcodes == {105, 233, 41, 9, 73, 201, 224, 192, 162, 160}

FixImmediate ==
  {Fix("immediate", 1, 1536,
       [CPU_new EXCEPT !.pc = 1536, !.accum = I8(r), !.x = I8(r), !.y = I8(r),
          !.status.c = c,
          !.mem = MemOf(Prog(1536, <<o, m>>))]) :
     o \in ImmediateOpcodes, r \in ByteSamples, m \in ByteSamples, c \in {0, 1}}

\* LDA #v for every byte v, from several addresses and register settings
FixLda ==
  {Fix("lda", 1, A,
       [CPU_new EXCEPT !.pc = A, !.accum = I8(r), !.x = I8(r + 1), !.y = I8(r + 2),
          !.status.z = f, !.status.n = 1 - f, !.status.c = f,
          !.mem = MemOf(Prog(A, <<169, v>>))]) :
     A \in {1536, 65534}, v \in 0..255, r \in {0, 127, 255}, f \in {0, 1}}

\* JMP (P): the cells at P, P + 1 and the start of P's page hold distinct bytes
FixIndirect ==
  {Fix("indirect", 1, 1536,
       [CPU_new EXCEPT !.pc = 1536,
          !.mem = MemOf(Prog(1536, <<108, Lo(P), Hi(P)>>)
                        \cup {<<P, 52>>, <<P + 1, 18>>}
                        \cup (IF Lo(P) = 255 THEN {<<P - 255, 86>>} ELSE {}))]) :
     P \in {767, 640, 255, 16, 1279}}

\* every opcode value once, with two operand bytes after it
FixDecode ==
  {Fix("decode", 1, 1536,
       [CPU_new EXCEPT !.pc = 1536, !.accum = 3, !.x = 2, !.y = 1,
          !.mem = MemOf(Prog(1536, <<o, b[1], b[2]>>))]) :
     o \in 0..255, b \in {<<16, 0>>, <<128, 2>>}}

\* NOP and opcodes without an assignment, from several addresses (the last
\* address of a ram mirror and of the address space among them) and register,
\* flag and stack pointer settings
NopOpcodes == {234, 2, 128, 255}

FixNop ==
  {Fix("nop", 2, A,
       [CPU_new EXCEPT !.pc = A, !.accum = I8(r), !.x = I8(r + 1), !.y = I8(r + 2),
          !.sp = p, !.status.c = f, !.status.z = 1 - f, !.status.i = f,
          !.status.v = 1 - f, !.status.n = f,
          !.mem = MemOf(Prog(A, <<o, o>>) \cup {<<16, 7>>, <<511, 9>>})]) :
     o \in NopOpcodes, A \in {1536, 2047, 65535}, r \in {0, 127, 255},
     p \in {0, 253, 255}, f \in {0, 1}}

\* Addresses and bytes passed to Memory::ram_write: both ends of the ram, of
\* its first mirror and of the address space, and the stack page.
WriteAddrs == {0, 16, 256, 511, 2047, 2048, 2049, 4096, 32784, 65535}

WriteBytes == {0, 5, 255}

\* a Memory that is written to directly: new, and with some cells set
FixMemory ==
  {Fix("memory", 0, 0, [CPU_new EXCEPT !.mem = m]) :
     m \in {Memory_new, MemOf({<<0, 1>>, <<16, 7>>, <<2047, 3>>})}}

\* PHP with every setting of the flags C, Z, I, D, V, N
FixPhp ==
  {Fix("php", 1, 1536,
       [CPU_new EXCEPT !.pc = 1536, !.sp = p,
          !.status = [StatusRegister_new EXCEPT !.c = fl[1], !.z = fl[2],
                         !.i = fl[3], !.d = fl[4], !.v = fl[5], !.n = fl[6]],
          !.mem = MemOf(Prog(1536, <<8>>))]) :
     p \in {253, 0},
     fl \in {0, 1} \X {0, 1} \X {0, 1} \X {0, 1} \X {0, 1} \X {0, 1}}

\* the instructions run after a PLP: PHP, BRK, BEQ, BNE, BMI, BCS, BVS
PlpFollowers == {8, 0, 240, 208, 48, 176, 112}

\* PLP pulling the byte b, then one of the followers
FixPlp ==
  {Fix("plp", 2, 1536,
       [CPU_new EXCEPT !.pc = 1536, !.sp = p,
          !.mem = MemOf(Prog(1536, <<40, o, 4>>) \cup {<<STACK_TOP + U8(p + 1), b>>}
                        \cup Prog(65534, <<128, 6>>))]) :
     o \in PlpFollowers, b \in 0..255, p \in {252, 255}}

\* BRK at A (after a CLI or SEC, or alone) with the IRQ vector pointing at T,
\* and RTI at T
FixBrkRti ==
  {Fix("brk_rti", Len(pre) + 2, A,
       [CPU_new EXCEPT !.pc = A, !.sp = p, !.status.z = f, !.status.n = 1 - f,
          !.mem = MemOf(Prog(A, pre \o <<0>>) \cup Prog(T, <<64>>)
                        \cup Prog(65534, <<Lo(T), Hi(T)>>))]) :
     pre \in {<<>>, <<88>>, <<56>>}, A \in {1536, 1278}, T \in {1664, 4660},
     p \in {253, 2, 0}, f \in {0, 1}}

\* BNE and BEQ at the ends of the address space and at the sign change of
\* pc as i16, with a forward and a backward displacement
FixBranchEdge ==
  {Fix("branch_edge", 1, A,
       [CPU_new EXCEPT !.pc = A, !.status.z = f,
          !.mem = MemOf(Prog(A, <<o, d>>))]) :
     o \in {208, 240}, A \in {0, 32766, 32768, 65533}, d \in {4, 252},
     f \in {0, 1}}

\* LDA with each mode that computes its address (0xAD abs, 0xBD abs,X,
\* 0xB9 abs,Y, 0xB5 zp,X, 0xA1 (zp,X), 0xB1 (zp),Y), LDX zp,Y (0xB6) and
\* ADC abs,X (0x7D)
IndexedOpcodes == {173, 189, 185, 181, 161, 177, 182, 125}

\* zero-page and page-1 cells that hold pointers with distinct bytes
PointerCells ==
  {<<0, 33>>, <<1, 4>>, <<15, 85>>, <<16, 48>>, <<17, 2>>, <<240, 208>>,
   <<241, 0>>, <<255, 96>>, <<256, 7>>}

\* one of IndexedOpcodes with operand bytes b, h and X = Y = the index
FixIndexed ==
  {Fix("indexed", 1, 1536,
       [CPU_new EXCEPT !.pc = 1536, !.x = I8(idx), !.y = I8(idx),
          !.mem = MemOf(Prog(1536, <<o, b, h>>) \cup PointerCells)]) :
     o \in IndexedOpcodes, b \in {16, 240, 255}, h \in {0, 2},
     idx \in {0, 1, 15, 32, 128, 255}}

\* ASL and LSR on the accumulator (0x0A, 0x4A) and on zero page (0x06, 0x46)
ShiftOpcodes == {10, 74, 6, 70}

FixShift ==
  {Fix("shift", 1, 1536,
       [CPU_new EXCEPT !.pc = 1536, !.accum = I8(v), !.status.c = c,
          !.mem = MemOf(Prog(1536, <<o, 16>>) \cup {<<16, U8(v + 1)>>})]) :
     o \in ShiftOpcodes, v \in ByteSamples, c \in {0, 1}}

\* ROL and ROR on the accumulator (0x2A, 0x6A) and on zero page (0x26, 0x66)
RotateOpcodes == {42, 106, 38, 102}

FixRotate ==
  {Fix("rotate", 1, 1536,
       [CPU_new EXCEPT !.pc = 1536, !.accum = I8(v), !.status.c = c,
          !.mem = MemOf(Prog(1536, <<o, 16>>) \cup {<<16, U8(v + 1)>>})]) :
     o \in RotateOpcodes, v \in ByteSamples, c \in {0, 1}}

\* INX, INY, DEX, DEY (0xE8, 0xC8, 0xCA, 0x88), INC zp and DEC zp (0xE6, 0xC6)
IncDecOpcodes == {232, 200, 202, 136, 230, 198}

FixIncDec ==
  {Fix("incdec", 1, 1536,
       [CPU_new EXCEPT !.pc = 1536, !.accum = 9, !.x = I8(v), !.y = I8(v),
          !.status.z = f, !.status.n = f,
          !.mem = MemOf(Prog(1536, <<o, 16>>) \cup {<<16, v>>})]) :
     o \in IncDecOpcodes, v \in {0, 1, 127, 128, 255}, f \in {0, 1}}

\* TAX, TAY, TXA, TYA, TSX, TXS (0xAA, 0xA8, 0x8A, 0x98, 0xBA, 0x9A)
TransferOpcodes == {170, 168, 138, 152, 186, 154}

\* a transfer whose source register holds v, the other registers holding
\* values that differ from it and from each other
FixTransfer ==
  {Fix("transfer", 1, 1536,
       [CPU_new EXCEPT !.pc = 1536,
          !.accum = I8(IF o \in {170, 168} THEN v ELSE 17),
          !.x = I8(IF o \in {138, 154} THEN v ELSE 34),
          !.y = I8(IF o = 152 THEN v ELSE 51),
          !.sp = IF o = 186 THEN v ELSE 68,
          !.status.z = f, !.status.n = f,
          !.mem = MemOf(Prog(1536, <<o>>))]) :
     o \in TransferOpcodes, v \in {0, 1, 127, 128, 255}, f \in {0, 1}}

\* AND, ORA, EOR with a zero-page operand (0x25, 0x05, 0x45)
FixLogic ==
  {Fix("logic", 1, 1536,
       [CPU_new EXCEPT !.pc = 1536, !.accum = I8(r), !.x = 34, !.y = 51,
          !.status.c = f, !.status.v = 1 - f, !.status.d = f, !.status.i = 1 - f,
          !.mem = MemOf(Prog(1536, <<o, 16>>) \cup {<<16, m>>})]) :
     o \in {37, 5, 69}, r \in ByteSamples, m \in ByteSamples, f \in {0, 1}}

\* CLC, SEC, CLD, SED, CLI, SEI, CLV
FlagOpcodes == {24, 56, 216, 248, 88, 120, 184}

FixFlagOps ==
  {Fix("flag_ops", 1, A,
       [CPU_new EXCEPT !.pc = A, !.accum = 17, !.x = 34, !.y = 51,
          !.status = [StatusRegister_new EXCEPT !.c = fl[1], !.z = fl[2],
                         !.i = fl[3], !.d = fl[4], !.v = fl[5], !.n = fl[6]],
          !.mem = MemOf(Prog(A, <<o>>))]) :
     o \in FlagOpcodes, A \in {1536, 65535},
     fl \in {0, 1} \X {0, 1} \X {0, 1} \X {0, 1} \X {0, 1} \X {0, 1}}

\* BIT with a zero-page operand (0x24)
FixBit ==
  {Fix("bit", 1, 1536,
       [CPU_new EXCEPT !.pc = 1536, !.accum = I8(r), !.status.c = f,
          !.status.v = f, !.status.n = 1 - f,
          !.mem = MemOf(Prog(1536, <<36, 16>>) \cup {<<16, m>>})]) :
     r \in {0, 1, 64, 128, 192, 255}, m \in {0, 1, 64, 128, 192, 255},
     f \in {0, 1}}

\* PHA; TXA; PHA; PLA; PLA: two pushes (of accum, then of X) and two pulls
FixLifo ==
  {Fix("lifo", 5, 1536,
       [CPU_new EXCEPT !.pc = 1536, !.accum = I8(v[1]), !.x = I8(v[2]), !.sp = p,
          !.mem = MemOf(Prog(1536, <<72, 138, 72, 104, 104>>))]) :
     v \in {<<5, 9>>, <<128, 0>>, <<255, 255>>}, p \in {253, 1, 0}}

Fixtures ==
  FixNew \cup FixProgram \cup FixJsrRts \cup FixPhaPla \cup FixBranch
  \cup FixImmediate \cup FixLda \cup FixIndirect \cup FixDecode
  \cup FixNop \cup FixMemory \cup FixPhp \cup FixPlp \cup FixBrkRti
  \cup FixBranchEdge \cup FixIndexed \cup FixShift
  \cup FixRotate \cup FixIncDec \cup FixTransfer \cup FixLogic
  \cup FixFlagOps \cup FixBit \cup FixLifo

Init ==
  /\ overflow_checks \in BOOLEAN
  /\ \E f \in Fixtures :
       /\ fixture = f.fix
       /\ pc = f.cpu.pc
       /\ sp = f.cpu.sp
       /\ accum = f.cpu.accum
       /\ x = f.cpu.x
       /\ y = f.cpu.y
       /\ status = f.cpu.status
       /\ mem = f.cpu.mem
       /\ cycle = f.cpu.cycle
       /\ panicked = f.cpu.panicked
  /\ inst = NoInstr
  /\ hist = <<>>
  /\ call = NoCall

\* One call of advance_cpu by the embedder.
Advance ==
  /\ ~panicked
  /\ Len(hist) < MaxSteps
  /\ Len(hist) < fixture.n
  /\ \E r \in {advance_cpu(CpuState)} :
        /\ pc' = r.pc
        /\ sp' = r.sp
        /\ accum' = r.accum
        /\ x' = r.x
        /\ y' = r.y
        /\ status' = r.status
        /\ mem' = r.mem
        /\ cycle' = r.cycle
        /\ panicked' = r.panicked
  /\ inst' = IF fetch_instruction(CpuState).panicked THEN inst
             ELSE Instruction_new(fetched_opcode(CpuState))
  /\ hist' = Append(hist, CpuState)
  /\ call' = Call("advance_cpu", 0, 0)
  /\ UNCHANGED <<overflow_checks, fixture>>

\* One call of Memory::ram_write(addr, data) by the owner of the memory.
Write ==
  /\ ~panicked
  /\ fixture.name = "memory"
  /\ Len(hist) < MaxWrites
  /\ \E addr \in WriteAddrs, data \in WriteBytes :
        /\ mem' = IF ram_write_panics(addr) THEN mem ELSE ram_write(mem, addr, data)
        /\ panicked' = ram_write_panics(addr)
        /\ call' = Call("ram_write", addr, data)
  /\ hist' = Append(hist, CpuState)
  /\ UNCHANGED <<pc, sp, accum, x, y, status, cycle, overflow_checks, inst, fixture>>

Next == Advance \/ Write

Spec == Init /\ [][Next]_vars

---------------------------------------------------------------------------
\* Vocabulary of the properties.

Steps == Len(hist)

\* the state the run started from, and the state before the last advance_cpu
First == hist[1]

Prev == hist[Len(hist)]

\* the last advance_cpu got past its fetch and executed this opcode
Executed(opcode) ==
  /\ call.op = "advance_cpu"
  /\ ~fetch_instruction(Prev).panicked
  /\ fetched_opcode(Prev) = opcode

\* the byte k places after the opcode of the last instruction
OperandByte(k) == mem_read(Prev, U16(Prev.pc + k))

Signed(d) == IF d >= 128 THEN d - 256 ELSE d

Bit7(v) == (v \div 128) % 2

\* memory holds what it held in state s
SameMemory(s) == \A a \in 0..(RamSize - 1) : RamCell(mem, a) = RamCell(s.mem, a)

\* the little-endian word stored at a, a + 1
WordAt(a) == mem_read(CpuState, a) + 256 * mem_read(CpuState, U16(a + 1))

---------------------------------------------------------------------------
\* C1: from pc at A9 05 85 10 00 (LDA #5; STA $10; BRK), after two advance
\* steps accum is 5, the byte read at 0x0010 is 5, Z = 0 and N = 0; the
\* third step executes BRK and leaves pc equal to the word at 0xFFFE/0xFFFF.
C1_EndToEnd ==
  fixture.name = "program" =>
    /\ Steps >= 1 => ~panicked
    /\ Steps = 2 => /\ accum = 5
                    /\ mem_read(CpuState, 16) = 5
                    /\ status.z = 0
                    /\ status.n = 0
    /\ Steps = 3 => pc = WordAt(65534)

\* C2: JSR T at A completes, pushes exactly two bytes and leaves pc = T; the
\* RTS executed next leaves pc = A + 3 and sp as it was before the JSR.
C2_JsrRts ==
  fixture.name = "jsr_rts" =>
    /\ Steps >= 1 => ~panicked
    /\ Steps = 1 => /\ pc = First.mem[(fixture.org + 1) % RamSize]
                         + 256 * First.mem[(fixture.org + 2) % RamSize]
                    /\ sp = U8(First.sp - 2)
    /\ Steps = 2 => /\ pc = U16(fixture.org + 3)
                    /\ sp = First.sp

\* C3: PHA followed by PLA (the accumulator may be overwritten in between)
\* leaves accum equal to its value v before the PHA, sp as before the PHA,
\* Z = (v == 0) and N = bit 7 of v.
C3_PhaPla ==
  (fixture.name \in {"pha_pla", "pha_lda_pla"} /\ Steps = fixture.n) =>
    /\ ~panicked
    /\ accum = First.accum
    /\ sp = First.sp
    /\ status.z = Bit(First.accum = 0)
    /\ status.n = Bit7(U8(First.accum))

\* the condition on which the 6502 takes the branch with this opcode
BranchTaken(opcode, st) ==
  CASE opcode = 16  -> st.n = 0
    [] opcode = 48  -> st.n = 1
    [] opcode = 80  -> st.v = 0
    [] opcode = 112 -> st.v = 1
    [] opcode = 144 -> st.c = 0
    [] opcode = 176 -> st.c = 1
    [] opcode = 208 -> st.z = 0
    [] opcode = 240 -> st.z = 1

BranchTarget(s) == U16(s.pc + 2 + Signed(mem_read(s, U16(s.pc + 1))))

BranchCycles(s) ==
  IF ~BranchTaken(fetched_opcode(s), s.status) THEN 2
  ELSE IF BranchTarget(s) \div 256 = U16(s.pc + 2) \div 256 THEN 3
  ELSE 4

\* C4: a conditional branch costs 2 cycles when not taken, 3 when taken to
\* the page of the following instruction, 4 when taken to another page.
C4_BranchCycles ==
  (\E o \in BranchOpcodes : Executed(o)) =>
    cycle = Prev.cycle + BranchCycles(Prev)

\* C5: ADC leaves accum = (A + M + c) mod 256, Carry = 1 iff A + M + c >= 256,
\* Overflow = 1 iff A and M have the same sign bit and the result's differs,
\* Zero = (result == 0), Negative = bit 7 of the result.
C5_Adc ==
  Executed(105) =>
    LET A   == U8(Prev.accum)
        M   == OperandByte(1)
        sum == A + M + Prev.status.c
        res == sum % 256
    IN /\ ~panicked
       /\ U8(accum) = res
       /\ status.c = Bit(sum >= 256)
       /\ status.v = Bit(Bit7(A) = Bit7(M) /\ Bit7(res) # Bit7(A))
       /\ status.z = Bit(res = 0)
       /\ status.n = Bit7(res)

\* the register CMP (0xC9), CPX (0xE0) and CPY (0xC0) compare
CompareRegister(opcode, s) ==
  CASE opcode = 201 -> s.accum
    [] opcode = 224 -> s.x
    [] opcode = 192 -> s.y

CompareOpcodes == {201, 224, 192}

\* C6: a compare of register R with operand M completes without fault, sets
\* Carry = 1 iff R >= M as unsigned bytes, Zero = 1 iff R == M, Negative =
\* bit 7 of (R - M) mod 256, and leaves R unchanged.
C6_Compare ==
  \A o \in CompareOpcodes :
    Executed(o) =>
      LET R == U8(CompareRegister(o, Prev))
          M == OperandByte(1)
      IN /\ ~panicked
         /\ status.c = Bit(R >= M)
         /\ status.z = Bit(R = M)
         /\ status.n = Bit7((R - M) % 256)
         /\ CompareRegister(o, CpuState) = CompareRegister(o, Prev)

\* C7: LDA #v leaves accum = v, Z = 1 iff v == 0 and N = 1 iff bit 7 of v is
\* set, and changes no other register, no other flag and no memory.
C7_LdaImmediate ==
  Executed(169) =>
    LET v == OperandByte(1)
    IN /\ U8(accum) = v
       /\ status.z = Bit(v = 0)
       /\ status.n = Bit7(v)
       /\ x = Prev.x /\ y = Prev.y /\ sp = Prev.sp
       /\ status = [Prev.status EXCEPT !.z = status.z, !.n = status.n]
       /\ SameMemory(Prev)

\* LDA #0x80 has run and a register-preserving load was observed
C7_Witness ==
  /\ Executed(169)
  /\ OperandByte(1) = 128
  /\ accum = -128
  /\ Prev.accum = 127
  /\ status.n = 1 /\ status.z = 0
  /\ ~panicked

\* the pointer operand of the last instruction
PointerOperand == OperandByte(1) + 256 * OperandByte(2)

\* C8: Indirect addressing with pointer P reads the target's low byte from P
\* and its high byte from P + 1, or from (P AND 0xFF00) when the low byte of
\* P is 0xFF.
C8_IndirectPageBug ==
  Executed(108) =>
    LET P  == PointerOperand
        hi == IF P % 256 = 255 THEN P - 255 ELSE P + 1
        o  == get_operand(fetch_instruction(Prev), "Indirect")
    IN /\ ~o.panic
       /\ o.addr = mem_read(Prev, P) + 256 * mem_read(Prev, hi)

\* The opcode table of the 6502 reference documentation.
ReferenceTable(opcode) ==
  CASE opcode =   0 -> Instr("BRK", "Implicit", 7, 1)   \* 0x00
    [] opcode =   1 -> Instr("ORA", "IndexedIndirect", 6, 2)   \* 0x01
    [] opcode =   5 -> Instr("ORA", "ZeroPage", 3, 2)   \* 0x05
    [] opcode =   6 -> Instr("ASL", "ZeroPage", 5, 2)   \* 0x06
    [] opcode =   8 -> Instr("PHP", "Implicit", 3, 1)   \* 0x08
    [] opcode =   9 -> Instr("ORA", "Immediate", 2, 2)   \* 0x09
    [] opcode =  10 -> Instr("ASL", "Accumulator", 2, 1)   \* 0x0a
    [] opcode =  13 -> Instr("ORA", "Absolute", 4, 3)   \* 0x0d
    [] opcode =  14 -> Instr("ASL", "Absolute", 6, 3)   \* 0x0e
    [] opcode =  16 -> Instr("BPL", "Relative", 2, 2)   \* 0x10
    [] opcode =  17 -> Instr("ORA", "IndirectIndexed", 5, 2)   \* 0x11
    [] opcode =  21 -> Instr("ORA", "ZeroPageX", 4, 2)   \* 0x15
    [] opcode =  22 -> Instr("ASL", "ZeroPageX", 6, 2)   \* 0x16
    [] opcode =  24 -> Instr("CLC", "Implicit", 2, 1)   \* 0x18
    [] opcode =  25 -> Instr("ORA", "AbsoluteY", 4, 3)   \* 0x19
    [] opcode =  29 -> Instr("ORA", "AbsoluteX", 4, 3)   \* 0x1d
    [] opcode =  30 -> Instr("ASL", "AbsoluteX", 7, 3)   \* 0x1e
    [] opcode =  32 -> Instr("JSR", "Absolute", 6, 3)   \* 0x20
    [] opcode =  33 -> Instr("AND", "IndexedIndirect", 6, 2)   \* 0x21
    [] opcode =  36 -> Instr("BIT", "ZeroPage", 3, 2)   \* 0x24
    [] opcode =  37 -> Instr("AND", "ZeroPage", 3, 2)   \* 0x25
    [] opcode =  38 -> Instr("ROL", "ZeroPage", 5, 2)   \* 0x26
    [] opcode =  40 -> Instr("PLP", "Implicit", 4, 1)   \* 0x28
    [] opcode =  41 -> Instr("AND", "Immediate", 2, 2)   \* 0x29
    [] opcode =  42 -> Instr("ROL", "Accumulator", 2, 1)   \* 0x2a
    [] opcode =  44 -> Instr("BIT", "Absolute", 4, 3)   \* 0x2c
    [] opcode =  45 -> Instr("AND", "Absolute", 4, 3)   \* 0x2d
    [] opcode =  46 -> Instr("ROL", "Absolute", 6, 3)   \* 0x2e
    [] opcode =  48 -> Instr("BMI", "Relative", 2, 2)   \* 0x30
    [] opcode =  49 -> Instr("AND", "IndirectIndexed", 5, 2)   \* 0x31
    [] opcode =  53 -> Instr("AND", "ZeroPageX", 4, 2)   \* 0x35
    [] opcode =  54 -> Instr("ROL", "ZeroPageX", 6, 2)   \* 0x36
    [] opcode =  56 -> Instr("SEC", "Implicit", 2, 1)   \* 0x38
    [] opcode =  57 -> Instr("AND", "AbsoluteY", 4, 3)   \* 0x39
    [] opcode =  61 -> Instr("AND", "AbsoluteX", 4, 3)   \* 0x3d
    [] opcode =  62 -> Instr("ROL", "AbsoluteX", 7, 3)   \* 0x3e
    [] opcode =  64 -> Instr("RTI", "Implicit", 6, 1)   \* 0x40
    [] opcode =  65 -> Instr("EOR", "IndexedIndirect", 6, 2)   \* 0x41
    [] opcode =  69 -> Instr("EOR", "ZeroPage", 3, 2)   \* 0x45
    [] opcode =  70 -> Instr("LSR", "ZeroPage", 5, 2)   \* 0x46
    [] opcode =  72 -> Instr("PHA", "Implicit", 3, 1)   \* 0x48
    [] opcode =  73 -> Instr("EOR", "Immediate", 2, 2)   \* 0x49
    [] opcode =  74 -> Instr("LSR", "Accumulator", 2, 1)   \* 0x4a
    [] opcode =  76 -> Instr("JMP", "Absolute", 3, 3)   \* 0x4c
    [] opcode =  77 -> Instr("EOR", "Absolute", 4, 3)   \* 0x4d
    [] opcode =  78 -> Instr("LSR", "Absolute", 6, 3)   \* 0x4e
    [] opcode =  80 -> Instr("BVC", "Relative", 2, 2)   \* 0x50
    [] opcode =  81 -> Instr("EOR", "IndirectIndexed", 5, 2)   \* 0x51
    [] opcode =  85 -> Instr("EOR", "ZeroPageX", 4, 2)   \* 0x55
    [] opcode =  86 -> Instr("LSR", "ZeroPageX", 6, 2)   \* 0x56
    [] opcode =  88 -> Instr("CLI", "Implicit", 2, 1)   \* 0x58
    [] opcode =  89 -> Instr("EOR", "AbsoluteY", 4, 3)   \* 0x59
    [] opcode =  93 -> Instr("EOR", "AbsoluteX", 4, 3)   \* 0x5d
    [] opcode =  94 -> Instr("LSR", "AbsoluteX", 7, 3)   \* 0x5e
    [] opcode =  96 -> Instr("RTS", "Implicit", 6, 1)   \* 0x60
    [] opcode =  97 -> Instr("ADC", "IndexedIndirect", 6, 2)   \* 0x61
    [] opcode = 101 -> Instr("ADC", "ZeroPage", 3, 2)   \* 0x65
    [] opcode = 102 -> Instr("ROR", "ZeroPage", 5, 2)   \* 0x66
    [] opcode = 104 -> Instr("PLA", "Implicit", 4, 1)   \* 0x68
    [] opcode = 105 -> Instr("ADC", "Immediate", 2, 2)   \* 0x69
    [] opcode = 106 -> Instr("ROR", "Accumulator", 2, 1)   \* 0x6a
    [] opcode = 108 -> Instr("JMP", "Indirect", 5, 3)   \* 0x6c
    [] opcode = 109 -> Instr("ADC", "Absolute", 4, 3)   \* 0x6d
    [] opcode = 110 -> Instr("ROR", "Absolute", 6, 3)   \* 0x6e
    [] opcode = 112 -> Instr("BVS", "Relative", 2, 2)   \* 0x70
    [] opcode = 113 -> Instr("ADC", "IndirectIndexed", 5, 2)   \* 0x71
    [] opcode = 117 -> Instr("ADC", "ZeroPageX", 4, 2)   \* 0x75
    [] opcode = 118 -> Instr("ROR", "ZeroPageX", 6, 2)   \* 0x76
    [] opcode = 120 -> Instr("SEI", "Implicit", 2, 1)   \* 0x78
    [] opcode = 121 -> Instr("ADC", "AbsoluteY", 4, 3)   \* 0x79
    [] opcode = 125 -> Instr("ADC", "AbsoluteX", 4, 3)   \* 0x7d
    [] opcode = 126 -> Instr("ROR", "AbsoluteX", 7, 3)   \* 0x7e
    [] opcode = 129 -> Instr("STA", "IndexedIndirect", 6, 2)   \* 0x81
    [] opcode = 132 -> Instr("STY", "ZeroPage", 3, 2)   \* 0x84
    [] opcode = 133 -> Instr("STA", "ZeroPage", 3, 2)   \* 0x85
    [] opcode = 134 -> Instr("STX", "ZeroPage", 3, 2)   \* 0x86
    [] opcode = 136 -> Instr("DEY", "Implicit", 2, 1)   \* 0x88
    [] opcode = 138 -> Instr("TXA", "Implicit", 2, 1)   \* 0x8a
    [] opcode = 140 -> Instr("STY", "Absolute", 4, 3)   \* 0x8c
    [] opcode = 141 -> Instr("STA", "Absolute", 4, 3)   \* 0x8d
    [] opcode = 142 -> Instr("STX", "Absolute", 4, 3)   \* 0x8e
    [] opcode = 144 -> Instr("BCC", "Relative", 2, 2)   \* 0x90
    [] opcode = 145 -> Instr("STA", "IndirectIndexed", 6, 2)   \* 0x91
    [] opcode = 148 -> Instr("STY", "ZeroPageX", 4, 2)   \* 0x94
    [] opcode = 149 -> Instr("STA", "ZeroPageX", 4, 2)   \* 0x95
    [] opcode = 150 -> Instr("STX", "ZeroPageY", 4, 2)   \* 0x96
    [] opcode = 152 -> Instr("TYA", "Implicit", 2, 1)   \* 0x98
    [] opcode = 153 -> Instr("STA", "AbsoluteY", 5, 3)   \* 0x99
    [] opcode = 154 -> Instr("TXS", "Implicit", 2, 1)   \* 0x9a
    [] opcode = 157 -> Instr("STA", "AbsoluteX", 5, 3)   \* 0x9d
    [] opcode = 160 -> Instr("LDY", "Immediate", 2, 2)   \* 0xa0
    [] opcode = 161 -> Instr("LDA", "IndexedIndirect", 6, 2)   \* 0xa1
    [] opcode = 162 -> Instr("LDX", "Immediate", 2, 2)   \* 0xa2
    [] opcode = 164 -> Instr("LDY", "ZeroPage", 3, 2)   \* 0xa4
    [] opcode = 165 -> Instr("LDA", "ZeroPage", 3, 2)   \* 0xa5
    [] opcode = 166 -> Instr("LDX", "ZeroPage", 3, 2)   \* 0xa6
    [] opcode = 168 -> Instr("TAY", "Implicit", 2, 1)   \* 0xa8
    [] opcode = 169 -> Instr("LDA", "Immediate", 2, 2)   \* 0xa9
    [] opcode = 170 -> Instr("TAX", "Implicit", 2, 1)   \* 0xaa
    [] opcode = 172 -> Instr("LDY", "Absolute", 4, 3)   \* 0xac
    [] opcode = 173 -> Instr("LDA", "Absolute", 4, 3)   \* 0xad
    [] opcode = 174 -> Instr("LDX", "Absolute", 4, 3)   \* 0xae
    [] opcode = 176 -> Instr("BCS", "Relative", 2, 2)   \* 0xb0
    [] opcode = 177 -> Instr("LDA", "IndirectIndexed", 5, 2)   \* 0xb1
    [] opcode = 180 -> Instr("LDY", "ZeroPageX", 4, 2)   \* 0xb4
    [] opcode = 181 -> Instr("LDA", "ZeroPageX", 4, 2)   \* 0xb5
    [] opcode = 182 -> Instr("LDX", "ZeroPageY", 4, 2)   \* 0xb6
    [] opcode = 184 -> Instr("CLV", "Implicit", 2, 1)   \* 0xb8
    [] opcode = 185 -> Instr("LDA", "AbsoluteY", 4, 3)   \* 0xb9
    [] opcode = 186 -> Instr("TSX", "Implicit", 2, 1)   \* 0xba
    [] opcode = 188 -> Instr("LDY", "AbsoluteX", 4, 3)   \* 0xbc
    [] opcode = 189 -> Instr("LDA", "AbsoluteX", 4, 3)   \* 0xbd
    [] opcode = 190 -> Instr("LDX", "AbsoluteY", 4, 3)   \* 0xbe
    [] opcode = 192 -> Instr("CPY", "Immediate", 2, 2)   \* 0xc0
    [] opcode = 193 -> Instr("CMP", "IndexedIndirect", 6, 2)   \* 0xc1
    [] opcode = 196 -> Instr("CPY", "ZeroPage", 3, 2)   \* 0xc4
    [] opcode = 197 -> Instr("CMP", "ZeroPage", 3, 2)   \* 0xc5
    [] opcode = 198 -> Instr("DEC", "ZeroPage", 5, 2)   \* 0xc6
    [] opcode = 200 -> Instr("INY", "Implicit", 2, 1)   \* 0xc8
    [] opcode = 201 -> Instr("CMP", "Immediate", 2, 2)   \* 0xc9
    [] opcode = 202 -> Instr("DEX", "Implicit", 2, 1)   \* 0xca
    [] opcode = 204 -> Instr("CPY", "Absolute", 4, 3)   \* 0xcc
    [] opcode = 205 -> Instr("CMP", "Absolute", 4, 3)   \* 0xcd
    [] opcode = 206 -> Instr("DEC", "Absolute", 6, 3)   \* 0xce
    [] opcode = 208 -> Instr("BNE", "Relative", 2, 2)   \* 0xd0
    [] opcode = 209 -> Instr("CMP", "IndirectIndexed", 5, 2)   \* 0xd1
    [] opcode = 213 -> Instr("CMP", "ZeroPageX", 4, 2)   \* 0xd5
    [] opcode = 214 -> Instr("DEC", "ZeroPageX", 6, 2)   \* 0xd6
    [] opcode = 216 -> Instr("CLD", "Implicit", 2, 1)   \* 0xd8
    [] opcode = 217 -> Instr("CMP", "AbsoluteY", 4, 3)   \* 0xd9
    [] opcode = 221 -> Instr("CMP", "AbsoluteX", 4, 3)   \* 0xdd
    [] opcode = 222 -> Instr("DEC", "AbsoluteX", 7, 3)   \* 0xde
    [] opcode = 224 -> Instr("CPX", "Immediate", 2, 2)   \* 0xe0
    [] opcode = 225 -> Instr("SBC", "IndexedIndirect", 6, 2)   \* 0xe1
    [] opcode = 228 -> Instr("CPX", "ZeroPage", 3, 2)   \* 0xe4
    [] opcode = 229 -> Instr("SBC", "ZeroPage", 3, 2)   \* 0xe5
    [] opcode = 230 -> Instr("INC", "ZeroPage", 5, 2)   \* 0xe6
    [] opcode = 232 -> Instr("INX", "Implicit", 2, 1)   \* 0xe8
    [] opcode = 233 -> Instr("SBC", "Immediate", 2, 2)   \* 0xe9
    [] opcode = 234 -> Instr("NOP", "Implicit", 2, 1)   \* 0xea
    [] opcode = 236 -> Instr("CPX", "Absolute", 4, 3)   \* 0xec
    [] opcode = 237 -> Instr("SBC", "Absolute", 4, 3)   \* 0xed
    [] opcode = 238 -> Instr("INC", "Absolute", 6, 3)   \* 0xee
    [] opcode = 240 -> Instr("BEQ", "Relative", 2, 2)   \* 0xf0
    [] opcode = 241 -> Instr("SBC", "IndirectIndexed", 5, 2)   \* 0xf1
    [] opcode = 245 -> Instr("SBC", "ZeroPageX", 4, 2)   \* 0xf5
    [] opcode = 246 -> Instr("INC", "ZeroPageX", 6, 2)   \* 0xf6
    [] opcode = 248 -> Instr("SED", "Implicit", 2, 1)   \* 0xf8
    [] opcode = 249 -> Instr("SBC", "AbsoluteY", 4, 3)   \* 0xf9
    [] opcode = 253 -> Instr("SBC", "AbsoluteX", 4, 3)   \* 0xfd
    [] opcode = 254 -> Instr("INC", "AbsoluteX", 7, 3)   \* 0xfe
    [] OTHER -> Instr("ILLEGAL", "Implicit", 2, 1)

OfficialOpcodes ==
  {0, 1, 5, 6, 8, 9, 10, 13, 14, 16, 17, 21, 22, 24, 25, 29, 30, 32, 33, 36,
   37, 38, 40, 41, 42, 44, 45, 46, 48, 49, 53, 54, 56, 57, 61, 62, 64, 65, 69,
   70, 72, 73, 74, 76, 77, 78, 80, 81, 85, 86, 88, 89, 93, 94, 96, 97, 101,
   102, 104, 105, 106, 108, 109, 110, 112, 113, 117, 118, 120, 121, 125, 126,
   129, 132, 133, 134, 136, 138, 140, 141, 142, 144, 145, 148, 149, 150, 152,
   153, 154, 157, 160, 161, 162, 164, 165, 166, 168, 169, 170, 172, 173, 174,
   176, 177, 180, 181, 182, 184, 185, 186, 188, 189, 190, 192, 193, 196, 197,
   198, 200, 201, 202, 204, 205, 206, 208, 209, 213, 214, 216, 217, 221, 222,
   224, 225, 228, 229, 230, 232, 233, 234, 236, 237, 238, 240, 241, 245, 246,
   248, 249, 253, 254}

\* C9: for each of the 151 official opcodes decode returns the mnemonic,
\* addressing mode, byte size and base cycle count of the 6502 opcode table.
C9_DecodeTable ==
  \A o \in OfficialOpcodes : Executed(o) => inst = ReferenceTable(o)

\* C10: for every opcode value with no official assignment the result of
\* decode differs from the result for the real NOP opcode 0xEA.
C10_IllegalDistinct ==
  \A o \in (0..255) \ OfficialOpcodes :
    Executed(o) => inst # Instruction_new(234)

\* NOP (0xEA) and the opcode values without an official assignment
NopOpcodeValues == ((0..255) \ OfficialOpcodes) \cup {234}

\* C11: one advance step executing NOP (0xEA) or an opcode with no official
\* assignment completes, increases pc by 1 (as a 16-bit register) and cycle by
\* 2, and leaves accum, X, Y, sp, every flag and every memory byte unchanged.
C11_NopFrame ==
  \A o \in NopOpcodeValues :
    Executed(o) =>
      /\ ~panicked
      /\ pc = U16(Prev.pc + 1)
      /\ cycle = Prev.cycle + 2
      /\ accum = Prev.accum /\ x = Prev.x /\ y = Prev.y /\ sp = Prev.sp
      /\ status = Prev.status
      /\ SameMemory(Prev)

\* two NOPs have run, the first at 0xFFFF, from registers and flags that are
\* not those of CPU::new
C11_Witness ==
  /\ fixture.name = "nop"
  /\ Steps = 2
  /\ Executed(234)
  /\ First.pc = 65535 /\ pc = 1
  /\ cycle = 4
  /\ accum = 127 /\ sp = 0 /\ status.c = 1 /\ status.i = 1
  /\ ~panicked

\* C12: every advance step completes: no opcode, operand, register value,
\* stack pointer value or address makes a panic escape to the embedder.
C12_NoFault == (call.op = "advance_cpu") => ~panicked

\* C13: a memory write of v to any 16-bit address a completes without fault
\* and an immediately following read of a returns v.
C13_WriteRead ==
  (call.op = "ram_write") =>
    /\ ~panicked
    /\ ram_read(mem, call.addr) = call.data

\* C14: in the state produced by CPU construction sp = 0xFD, the
\* Interrupt-disable flag is set and pc equals the little-endian word stored
\* at the reset vector 0xFFFC/0xFFFD.
C14_Reset ==
  (fixture.name = "new" /\ Steps = 0) =>
    /\ sp = 253
    /\ status.i = 1
    /\ pc = WordAt(65532)

\* the opcodes of PHA, PHP / PLA, PLP / JSR, RTS, BRK, RTI
PushOpcodes == {72, 8}

PullOpcodes == {104, 40}

StackOpcodes == PushOpcodes \cup PullOpcodes \cup {32, 96, 0, 64}

\* page 1
StackPage == 256..511

\* C15: a push or pull changes no memory cell outside 0x0100..0x01FF, and sp
\* wraps modulo 256 without fault: a push with sp = 0x00 leaves sp = 0xFF and
\* a pull with sp = 0xFF leaves sp = 0x00.
C15_StackPage ==
  /\ \A o \in StackOpcodes :
       Executed(o) =>
         \A a \in 0..(RamSize - 1) :
           RamCell(mem, a) # RamCell(Prev.mem, a) => a \in StackPage
  /\ \A o \in PushOpcodes :
       (Executed(o) /\ Prev.sp = 0) => (~panicked /\ sp = 255)
  /\ \A o \in PullOpcodes :
       (Executed(o) /\ Prev.sp = 255) => (~panicked /\ sp = 0)

\* bit k of the byte v
BitOf(v, k) == (v \div Pow2(k)) % 2

\* the byte the last instruction handed to its k-th push_byte call (k from 0),
\* read from the cell where ram_write stored it
PushedByte(k) == RamCell(mem, ram_write_index(STACK_TOP + U8(Prev.sp - k)))

\* the byte v is the image of the flags st with bit 5 and B set
StatusImage(v, st) ==
  /\ BitOf(v, 5) = 1
  /\ BitOf(v, 4) = 1
  /\ BitOf(v, 0) = Bit(st.c # 0)
  /\ BitOf(v, 1) = Bit(st.z # 0)
  /\ BitOf(v, 2) = Bit(st.i # 0)
  /\ BitOf(v, 3) = Bit(st.d # 0)
  /\ BitOf(v, 6) = Bit(st.v # 0)
  /\ BitOf(v, 7) = Bit(st.n # 0)

\* C16: in every reachable state, also after a PLP pulled an arbitrary byte,
\* the status byte pushed by PHP or BRK has bit 5 = 1 and bit 4 (B) = 1 and
\* its bits 0, 1, 2, 3, 6, 7 equal the current C, Z, I, D, V, N flags.
C16_StatusImage ==
  /\ (Executed(8) /\ ~panicked) => StatusImage(PushedByte(0), Prev.status)
  /\ (Executed(0) /\ ~panicked) => StatusImage(PushedByte(2), Prev.status)

\* the byte the PLP of the "plp" fixture pulls
PulledByte == mem_read(First, STACK_TOP + U8(First.sp + 1))

\* the bit of the pulled byte on which the branch with this opcode is taken
PlpBranchBit(opcode, b) ==
  CASE opcode = 240 -> BitOf(b, 1) = 1
    [] opcode = 208 -> BitOf(b, 1) = 0
    [] opcode = 48  -> BitOf(b, 7) = 1
    [] opcode = 176 -> BitOf(b, 0) = 1
    [] opcode = 112 -> BitOf(b, 6) = 1

\* the last instruction, a two-byte branch with a displacement other than 0,
\* was taken
BranchWasTaken == pc # U16(Prev.pc + 2)

\* C17: after PLP pulls the byte b, a following BEQ is taken iff bit 1 of b is
\* set, BNE iff it is clear, BMI iff bit 7 is set, BCS iff bit 0 is set, BVS
\* iff bit 6 is set, and a following PHP pushes b with bits 4 and 5 set.
C17_Plp ==
  (fixture.name = "plp" /\ Steps = 2 /\ First.sp # 255) =>
    /\ ~panicked
    /\ \A o \in {240, 208, 48, 176, 112} :
         Executed(o) => (BranchWasTaken <=> PlpBranchBit(o, PulledByte))
    /\ Executed(8) => PushedByte(0) = BitOrN(PulledByte, 48, 8)

\* C18: BRK pushes the high byte of pc, then the low byte of pc, then the
\* status byte with B set, so sp decreases by 3 modulo 256; it leaves pc
\* equal to the word at 0xFFFE/0xFFFF and the Interrupt-disable flag set.
C18_Brk ==
  Executed(0) =>
    /\ ~panicked
    /\ sp = U8(Prev.sp - 3)
    /\ \E ret \in {U16(Prev.pc + 1), U16(Prev.pc + 2)} :
         /\ mem_read(CpuState, STACK_TOP + Prev.sp) = Hi(ret)
         /\ mem_read(CpuState, STACK_TOP + U8(Prev.sp - 1)) = Lo(ret)
    /\ BitOf(mem_read(CpuState, STACK_TOP + U8(Prev.sp - 2)), 4) = 1
    /\ pc = WordAt(65534)
    /\ status.i = 1

\* the state before the BRK of the "brk_rti" fixture
BeforeBrk == hist[fixture.n - 1]

\* C19: RTI executed directly after a BRK leaves sp equal to its value before
\* the BRK, the flags C, Z, D, V, N equal to their values before the BRK and
\* pc equal to the return address that BRK pushed.
C19_BrkRti ==
  (fixture.name = "brk_rti" /\ Steps = fixture.n) =>
    /\ ~panicked
    /\ Executed(64)
    /\ sp = BeforeBrk.sp
    /\ status.c = BeforeBrk.status.c
    /\ status.z = BeforeBrk.status.z
    /\ status.d = BeforeBrk.status.d
    /\ status.v = BeforeBrk.status.v
    /\ status.n = BeforeBrk.status.n
    /\ pc \in {U16(BeforeBrk.pc + 1), U16(BeforeBrk.pc + 2)}

\* the modes whose indexing can cross a page
IndexedModes == {"AbsoluteX", "AbsoluteY", "IndirectIndexed"}

\* the cycles beyond the base count that the last instruction may consume: a
\* taken branch costs 1, and 1 more when its target is on another page; an
\* indexed access may cost 1
Penalties ==
  IF fetched_opcode(Prev) \in BranchOpcodes THEN {BranchCycles(Prev) - 2}
  ELSE IF inst.addr_mode \in IndexedModes THEN {0, 1}
  ELSE {0}

\* C20: the cycle counter never decreases, and every advance step that
\* completes increases it by the decoded instruction's base cycle count plus
\* the branch-taken or page-crossing penalty, so by at least 2.
C20_Cycles ==
  (call.op = "advance_cpu") =>
    /\ cycle >= Prev.cycle
    /\ ~panicked =>
         /\ (cycle - Prev.cycle - inst.cycles) \in Penalties
         /\ cycle - Prev.cycle >= 2

\* the last call was an advance_cpu that found this opcode at pc
Stepped(opcode) ==
  /\ call.op = "advance_cpu"
  /\ fetched_opcode(Prev) = opcode

\* JMP, JMP (ind), JSR, RTS, RTI, BRK
ControlFlowOpcodes == {76, 108, 32, 96, 64, 0}

\* C21: for every instruction other than JMP, JSR, RTS, RTI, BRK and taken
\* branches, one advance step from pc = A completes and leaves
\* pc = (A + n) mod 65536, n being the instruction's length in bytes.
C21_PcAdvance ==
  \A o \in OfficialOpcodes \ ControlFlowOpcodes :
    (Stepped(o) /\ ~(o \in BranchOpcodes /\ BranchTaken(o, Prev.status))) =>
      /\ ~panicked
      /\ pc = U16(Prev.pc + ReferenceTable(o).size)

\* the address JMP with this opcode resolves on the 6502
JmpTarget(opcode) ==
  IF opcode = 76 THEN PointerOperand
  ELSE LET P  == PointerOperand
           hi == IF P % 256 = 255 THEN P - 255 ELSE P + 1
       IN mem_read(Prev, P) + 256 * mem_read(Prev, hi)

\* the last step changed neither a register, nor a flag, nor sp, nor memory
OnlyPcAndCycle ==
  /\ accum = Prev.accum /\ x = Prev.x /\ y = Prev.y /\ sp = Prev.sp
  /\ status = Prev.status
  /\ SameMemory(Prev)

\* C22: after one advance step executing JMP (0x4C or 0x6C) pc equals the
\* resolved target address, and no register, flag, sp or memory byte changed.
C22_Jmp ==
  \A o \in {76, 108} :
    Executed(o) =>
      /\ ~panicked
      /\ pc = JmpTarget(o)
      /\ OnlyPcAndCycle

\* C23: a conditional branch at A with operand byte d leaves
\* pc = (A + 2 + signed(d)) mod 65536 when taken and pc = A + 2 when not, for
\* every A without fault, and changes no register, flag, sp or memory byte.
C23_Branch ==
  \A o \in BranchOpcodes :
    Stepped(o) =>
      /\ ~panicked
      /\ pc = (IF BranchTaken(o, Prev.status) THEN BranchTarget(Prev)
               ELSE U16(Prev.pc + 2))
      /\ OnlyPcAndCycle

\* what get_operand resolved for the last instruction
Resolved == get_operand(fetch_instruction(Prev), inst.addr_mode)

\* the opcode of the last instruction
LastOpcode == fetched_opcode(Prev)

\* the last advance_cpu executed an official opcode with this addressing mode
ExecutedMode(mode) ==
  /\ Executed(LastOpcode)
  /\ ReferenceTable(LastOpcode).addr_mode = mode

\* C24: ZeroPageX resolves to (b + X) mod 256 and ZeroPageY to (b + Y) mod
\* 256 for every operand byte b and index, without fault.
C24_ZeroPageIndexed ==
  /\ ExecutedMode("ZeroPageX") =>
       /\ ~Resolved.panic
       /\ Resolved.addr = (OperandByte(1) + U8(Prev.x)) % 256
  /\ ExecutedMode("ZeroPageY") =>
       /\ ~Resolved.panic
       /\ Resolved.addr = (OperandByte(1) + U8(Prev.y)) % 256

\* C25: Absolute addressing resolves to lo + 256 * hi for the operand bytes
\* lo, hi, and the operand is the byte read at that address.
C25_Absolute ==
  (ExecutedMode("Absolute") /\ LastOpcode # 32) =>
    /\ ~Resolved.panic
    /\ Resolved.addr = PointerOperand
    /\ U8(Resolved.operand) = mem_read(Prev, PointerOperand)

\* the base address of an indexed mode on the 6502: the operand word, or for
\* (zp),Y the word at the zero-page pointer
IndexBase(mode) ==
  IF mode = "IndirectIndexed"
  THEN mem_read(Prev, OperandByte(1))
       + 256 * mem_read(Prev, (OperandByte(1) + 1) % 256)
  ELSE PointerOperand

\* the index register of an indexed mode, as an unsigned byte
IndexValue(mode) == IF mode = "AbsoluteX" THEN U8(Prev.x) ELSE U8(Prev.y)

EffectiveAddress(mode) == U16(IndexBase(mode) + IndexValue(mode))

\* C26: for AbsoluteX, AbsoluteY and IndirectIndexed the effective address is
\* (base + index) mod 65536 with the index taken as unsigned 0..255, for every
\* base and index, without fault.
C26_IndexedAddress ==
  \A m \in IndexedModes :
    ExecutedMode(m) =>
      /\ ~Resolved.panic
      /\ Resolved.addr = EffectiveAddress(m)

\* C27: IndexedIndirect with operand byte b resolves the pointer
\* p = (b + X) mod 256 and the effective address is the byte at p plus 256
\* times the byte at (p + 1) mod 256.
C27_IndexedIndirect ==
  ExecutedMode("IndexedIndirect") =>
    LET p == (OperandByte(1) + U8(Prev.x)) % 256
    IN /\ ~Resolved.panic
       /\ Resolved.addr = mem_read(Prev, p) + 256 * mem_read(Prev, (p + 1) % 256)

ReadMnemonics == {"LDA", "LDX", "LDY", "ADC", "AND", "CMP", "EOR", "ORA", "SBC"}

\* C28: a read instruction using AbsoluteX, AbsoluteY or IndirectIndexed
\* costs its base cycle count, plus one cycle exactly when the high byte of
\* base + index differs from the high byte of base.
C28_PageCrossCycle ==
  \A m \in IndexedModes :
    (ExecutedMode(m) /\ ReferenceTable(LastOpcode).op \in ReadMnemonics) =>
      /\ ~panicked
      /\ cycle - Prev.cycle =
           ReferenceTable(LastOpcode).cycles
           + Bit(Hi(EffectiveAddress(m)) # Hi(IndexBase(m)))

\* C29: SBC leaves accum = (A - M - (1 - c)) mod 256, Carry = 1 iff no borrow
\* occurred, Overflow = 1 iff A and M differ in sign and the result's sign
\* differs from A's, Zero = (result == 0), Negative = bit 7 of the result,
\* without fault.
C29_Sbc ==
  Executed(233) =>
    LET A    == U8(Prev.accum)
        M    == OperandByte(1)
        diff == A - M - (1 - Prev.status.c)
        res  == diff % 256
    IN /\ ~panicked
       /\ U8(accum) = res
       /\ status.c = Bit(diff >= 0)
       /\ status.v = Bit(Bit7(A) # Bit7(M) /\ Bit7(res) # Bit7(A))
       /\ status.z = Bit(res = 0)
       /\ status.n = Bit7(res)

\* the byte a shift of the "shift" fixture operates on, and where its result
\* is after the step: the accumulator (0x0A, 0x4A) or the zero-page cell
ShiftOperand(opcode) ==
  IF opcode \in {10, 74} THEN U8(Prev.accum)
  ELSE mem_read(Prev, OperandByte(1))

ShiftResult(opcode) ==
  IF opcode \in {10, 74} THEN U8(accum)
  ELSE mem_read(CpuState, OperandByte(1))

\* the location the shift does not write is unchanged
ShiftOtherUnchanged(opcode) ==
  IF opcode \in {10, 74} THEN SameMemory(Prev) ELSE accum = Prev.accum

\* C30: ASL produces (2 * v) mod 256 with Carry = old bit 7 of v, LSR
\* produces floor(v / 2) with Carry = old bit 0 of v; the result goes to the
\* resolved memory address when the mode produced one and to the accumulator
\* otherwise, the other location being unchanged.
C30_Shift ==
  /\ \A o \in {10, 6} :
       Executed(o) =>
         /\ ~panicked
         /\ ShiftResult(o) = (2 * ShiftOperand(o)) % 256
         /\ status.c = Bit7(ShiftOperand(o))
         /\ ShiftOtherUnchanged(o)
  /\ \A o \in {74, 70} :
       Executed(o) =>
         /\ ~panicked
         /\ ShiftResult(o) = ShiftOperand(o) \div 2
         /\ status.c = ShiftOperand(o) % 2
         /\ ShiftOtherUnchanged(o)

\* the byte the last instruction handed to ram_write for this address, read
\* from the cell where ram_write stored it
StoredByte(addr) == RamCell(mem, ram_write_index(addr))

\* the byte a rotate operates on and the byte it produced: the accumulator
\* (0x2A, 0x6A) or the zero-page operand (0x26, 0x66)
RotateOperand(opcode) ==
  IF opcode \in {42, 106} THEN U8(Prev.accum)
  ELSE mem_read(Prev, OperandByte(1))

RotateResult(opcode) ==
  IF opcode \in {42, 106} THEN U8(accum)
  ELSE StoredByte(OperandByte(1))

\* C31: with carry-in c, ROL produces ((2 * v) mod 256) + c with Carry = old
\* bit 7 of v, and ROR produces floor(v / 2) + 128 * c with Carry = old bit 0
\* of v.
C31_Rotate ==
  /\ \A o \in {42, 38} :
       Executed(o) =>
         /\ ~panicked
         /\ RotateResult(o) = ((2 * RotateOperand(o)) % 256) + Prev.status.c
         /\ status.c = Bit7(RotateOperand(o))
  /\ \A o \in {106, 102} :
       Executed(o) =>
         /\ ~panicked
         /\ RotateResult(o) = (RotateOperand(o) \div 2) + 128 * Prev.status.c
         /\ status.c = RotateOperand(o) % 2

\* ROL A of 0x80 with the carry clear has run: the result is 0, not 1
C31_Witness ==
  /\ Executed(42)
  /\ Prev.accum = -128 /\ Prev.status.c = 0
  /\ accum = 0 /\ status.c = 1
  /\ ~panicked

\* the byte v after the register or memory form of INC / DEC with this opcode
IncDecDelta(opcode) == IF opcode \in {232, 200, 230} THEN 1 ELSE -1

IncDecOperand(opcode) ==
  CASE opcode \in {232, 202} -> U8(Prev.x)
    [] opcode \in {200, 136} -> U8(Prev.y)
    [] OTHER -> mem_read(Prev, OperandByte(1))

IncDecResult(opcode) ==
  CASE opcode \in {232, 202} -> U8(x)
    [] opcode \in {200, 136} -> U8(y)
    [] OTHER -> mem_read(CpuState, OperandByte(1))

\* C32: INC/INX/INY produce (v + 1) mod 256 and DEC/DEX/DEY (v - 1) mod 256
\* without fault, with Z = (result == 0) and N = bit 7 of the result; INC and
\* DEC write the resolved memory address and leave the registers unchanged,
\* the X/Y forms change only that register.
C32_IncDec ==
  \A o \in IncDecOpcodes :
    Executed(o) =>
      LET res == (IncDecOperand(o) + IncDecDelta(o)) % 256
      IN /\ ~panicked
         /\ IncDecResult(o) = res
         /\ status.z = Bit(res = 0)
         /\ status.n = Bit7(res)
         /\ accum = Prev.accum /\ sp = Prev.sp
         /\ o \notin {232, 202} => x = Prev.x
         /\ o \notin {200, 136} => y = Prev.y
         /\ o \notin {230, 198} => SameMemory(Prev)

\* the source and the destination of a transfer, as bytes
TransferSource(opcode) ==
  CASE opcode \in {170, 168} -> U8(Prev.accum)
    [] opcode \in {138, 154} -> U8(Prev.x)
    [] opcode = 152 -> U8(Prev.y)
    [] opcode = 186 -> Prev.sp

TransferDest(opcode) ==
  CASE opcode \in {170, 186} -> U8(x)
    [] opcode = 168 -> U8(y)
    [] opcode \in {138, 152} -> U8(accum)
    [] opcode = 154 -> sp

\* the registers as bytes, in the order accum, x, y, sp
Registers(s) == <<U8(s.accum), U8(s.x), U8(s.y), s.sp>>

\* the place of a transfer's destination in Registers
TransferDestIndex(opcode) ==
  CASE opcode \in {138, 152} -> 1
    [] opcode \in {170, 186} -> 2
    [] opcode = 168 -> 3
    [] opcode = 154 -> 4

\* C33: TAX, TAY, TXA, TYA and TSX copy the source to the destination and set
\* Z = (destination == 0) and N = bit 7 of it; TXS copies X to sp and changes
\* no flag; all other registers are unchanged.
C33_Transfer ==
  \A o \in TransferOpcodes :
    Executed(o) =>
      /\ ~panicked
      /\ TransferDest(o) = TransferSource(o)
      /\ \A k \in 1..4 :
           k # TransferDestIndex(o) => Registers(CpuState)[k] = Registers(Prev)[k]
      /\ status = (IF o = 154 THEN Prev.status
                   ELSE [Prev.status EXCEPT !.z = Bit(TransferSource(o) = 0),
                                            !.n = Bit7(TransferSource(o))])

\* the operand byte of AND, ORA, EOR: immediate (0x29, 0x09, 0x49) or read
\* from zero page (0x25, 0x05, 0x45)
LogicOperand(opcode) ==
  IF opcode \in {41, 9, 73} THEN OperandByte(1)
  ELSE mem_read(Prev, OperandByte(1))

LogicResult(opcode, A, M) ==
  CASE opcode \in {41, 37} -> BitAndN(A, M, 8)
    [] opcode \in {9, 5}   -> BitOrN(A, M, 8)
    [] opcode \in {73, 69} -> BitXorN(A, M, 8)

\* C34: AND, ORA and EOR leave accum = A AND M, A OR M, A XOR M, set
\* Z = (result == 0) and N = bit 7 of the result, and leave C, V, I, D, X, Y,
\* sp and memory unchanged.
C34_Logic ==
  \A o \in {41, 9, 73, 37, 5, 69} :
    Executed(o) =>
      LET res == LogicResult(o, U8(Prev.accum), LogicOperand(o))
      IN /\ ~panicked
         /\ U8(accum) = res
         /\ status = [Prev.status EXCEPT !.z = Bit(res = 0), !.n = Bit7(res)]
         /\ x = Prev.x /\ y = Prev.y /\ sp = Prev.sp
         /\ SameMemory(Prev)

\* AND $10 of 0xFF with 0x80 has run from Z = 1, N = 0
C34_Witness ==
  /\ Executed(37)
  /\ Prev.accum = -1 /\ LogicOperand(37) = 128
  /\ accum = -128
  /\ status.n = 1 /\ status.z = 0
  /\ ~panicked

\* the flag a flag instruction writes and the value it writes
FlagEffect(opcode) ==
  CASE opcode = 24  -> <<"c", 0>>
    [] opcode = 56  -> <<"c", 1>>
    [] opcode = 216 -> <<"d", 0>>
    [] opcode = 248 -> <<"d", 1>>
    [] opcode = 88  -> <<"i", 0>>
    [] opcode = 120 -> <<"i", 1>>
    [] opcode = 184 -> <<"v", 0>>

\* C35: each of CLC, SEC, CLD, SED, CLI, SEI, CLV writes exactly its one flag
\* and leaves every other flag, accum, X, Y, sp and memory unchanged; pc
\* advances by 1 and cycle by 2.
C35_FlagOps ==
  \A o \in FlagOpcodes :
    Executed(o) =>
      /\ ~panicked
      /\ status = [Prev.status EXCEPT ![FlagEffect(o)[1]] = FlagEffect(o)[2]]
      /\ accum = Prev.accum /\ x = Prev.x /\ y = Prev.y /\ sp = Prev.sp
      /\ SameMemory(Prev)
      /\ pc = U16(Prev.pc + 1)
      /\ cycle = Prev.cycle + 2

\* SED has run from D = 0 with every other flag set
C35_Witness ==
  /\ Executed(248)
  /\ Prev.status.d = 0 /\ status.d = 1
  /\ status.c = 1 /\ status.z = 1 /\ status.i = 1 /\ status.v = 1 /\ status.n = 1
  /\ accum = 17
  /\ ~panicked

\* C36: BIT sets Z = 1 iff (A AND M) == 0, N = bit 7 of M and V = bit 6 of M,
\* and leaves the accumulator, Carry and memory unchanged.
C36_Bit ==
  Executed(36) =>
    LET A == U8(Prev.accum)
        M == mem_read(Prev, OperandByte(1))
    IN /\ ~panicked
       /\ status.z = Bit(BitAndN(A, M, 8) = 0)
       /\ status.n = Bit7(M)
       /\ status.v = BitOf(M, 6)
       /\ accum = Prev.accum
       /\ status.c = Prev.status.c
       /\ SameMemory(Prev)

\* C37: k pushes (PHA) followed by k pulls (PLA) return the pushed values last
\* in, first out, and sp ends at its starting value, from any starting sp;
\* here k = 2, the pushes being of accum and then of X.
C37_Lifo ==
  (fixture.name = "lifo" /\ Steps >= 1) =>
    /\ ~panicked
    /\ Steps = 4 => accum = First.x
    /\ Steps = 5 => (accum = First.accum /\ sp = First.sp)

\* the size the 6502 gives an instruction with this addressing mode
SizeOfMode(mode) ==
  CASE mode \in {"Implicit", "Accumulator"} -> 1
    [] mode \in {"Immediate", "ZeroPage", "ZeroPageX", "ZeroPageY", "Relative",
                 "IndexedIndirect", "IndirectIndexed"} -> 2
    [] mode \in {"Absolute", "AbsoluteX", "AbsoluteY", "Indirect"} -> 3

\* C38: every entry of the decode table has the size of its addressing mode:
\* 1 for Implicit and Accumulator, 3 for Absolute, AbsoluteX, AbsoluteY and
\* Indirect, 2 for the others.
C38_SizeOfMode ==
  \A o \in 0..255 : Executed(o) => inst.size = SizeOfMode(inst.addr_mode)

\* C39: a memory write to address a leaves the value read at every address b
\* with b mod 2048 # a mod 2048 as it was.
C39_WriteFrame ==
  (call.op = "ram_write" /\ ~panicked) =>
    \A b \in 0..(RamSize - 1) :
      b # call.addr % RamSize => RamCell(mem, b) = RamCell(Prev.mem, b)

\* C40: in every reachable state each of the eight status-register fields
\* holds 0 or 1.
C40_FlagFields ==
  \A f \in DOMAIN status : status[f] \in {0, 1}

====
